---- MODULE Spec2Model ----
(***************************************************************************)
(* bksd: removable-storage backup daemon.                                  *)
(*                                                                         *)
(* The model covers the concurrent backup pipeline:                        *)
(*   - the Linux hardware adapter (mount table, cleanup_device),           *)
(*   - the orchestrator's event loop and handle_device_added,              *)
(*   - per job: the producer task (transfer engine + verification), the    *)
(*     bounded progress channel, and the consumer task (progress           *)
(*     registry, status log, notifications, cleanup),                      *)
(*   - the persistence operations create / update_status / get.            *)
(***************************************************************************)
EXTENDS Integers, Sequences, FiniteSets, TLC

(***************************************************************************)
(* Bounds of the model.                                                    *)
(***************************************************************************)
\* job ids the model provides (one job per forwarded DeviceAdded)
MaxJobs == 2
\* number of hot-plug Remove events the environment injects
MaxRemove == 1
\* in_progress statuses one engine run may emit (Spec)
MaxInProgress == 1
\* in_progress statuses one engine run may emit in the channel-capacity
\* specification (SpecChan): enough to fill the progress channel
MaxBurst == 101
\* environment faults (failed mount, failed database call, failed sync,
\* failed unmount) injected in one run
MaxFaults == 1
\* notification errors injected in one run (SpecNotify): the started and the
\* terminal notification of one job
MaxNotifyErrors == 2
\* recorded file hashes handed to the verifier (SpecVerify): one more than
\* the mismatches an error message lists
MaxRecorded == 11
\* files of a transfer whose copies may fail (SpecCopyMany): one more than
\* the errors an error message lists
MaxScanned == 11
\* update / remove calls made on the registry when it is driven directly
MaxOps == 3
\* a LogThrottle driven on its own (SpecThrottle): the interval in ms, the
\* largest clock value, should_log calls per thread, reset calls
ThrottleInterval == 2
MaxThrottleClock == 4
MaxThrottleCalls == 2
MaxResets == 1
\* hot-plug events the kernel delivers to the udev monitor (SpecStop): enough
\* to fill the udev channel and leave the thread with one more to send
MaxHotplug == 34
\* add_device / remove_device calls made on the simulated adapter's controller
MaxCalls == 3
\* largest value of the database clock (SpecDb)
MaxClock == 1
\* longest status log written through the persistence API (SpecDb)
MaxLog == 3

(***************************************************************************)
(* Program constants.                                                      *)
(***************************************************************************)
\* mpsc::channel(100): capacity of a job's progress channel
ProgressChannelCapacity == 100
\* mpsc::channel(32): capacity of the orchestrator's event channel
EventChannelCapacity == 32
\* mpsc::channel::<UdevEventData>(32): capacity of the adapter's udev channel
UdevChannelCapacity == 32

Uuids == {"u1", "u2"}
JobIds == 1 .. MaxJobs

\* TransferStatus tags (serde rename_all = "snake_case")
NonTerminalTags == {"ready", "in_progress", "copy_complete", "verifying"}
TerminalTags == {"complete", "failed"}
TransferStatusTags == NonTerminalTags \cup TerminalTags

\* A TransferStatus value; n is the payload that tells two in_progress
\* values apart (bytes_copied) and is 0 for the other tags.
TransferStatus(tag, n) == [tag |-> tag, n |-> n]

None == [tag |-> "none", n |-> 0]

TransferEngineTypes == {"native_copy", "rsync", "simulated"}

VARIABLES
    config,            \* AppConfig + notifier presence (AppContext)
    attachLeft,        \* hot-plug Add events still to come
    removeLeft,        \* hot-plug Remove events still to come
    unplugged,         \* history: uuid -> "no" | "removed" | "remounted" (Remove seen, mounted again since)
    burst,             \* in_progress budget of each engine run
    faultsLeft,        \* environment faults still to come
    sysMount,          \* OS mount table (/proc/mounts): uuid -> "none"|"bksd"|"ext"
    mounted_by_us,     \* MountState.mounted_by_us: set of uuids (uuid -> mount_base/uuid)
    events,            \* orchestrator event channel adapter -> orchestrator
    tx_open,           \* the adapter's processor task still holds the event sender
    orch,              \* Orchestrator::start: "running" its loop, or "returned"
    next_job,          \* next job id handle_device_added allocates
    job_dev,           \* job -> BlockDevice of its attach (or NoDev)
    job_status_log,    \* job -> sequence of status-log entries (database)
    now,               \* database clock (CURRENT_TIMESTAMP)
    progress_tracker,  \* ProgressTracker.inner: job -> TransferStatus or None
    chan,              \* job -> queued TransferStatus values (progress channel)
    rx_dropped,        \* job -> progress_rx has been dropped
    producer,          \* job -> position of the producer task
    ipLeft,            \* job -> in_progress statuses the engine may still emit
    consumer,          \* job -> [pc, status] of the consumer task
    started_task,      \* job -> state of the detached started-notification task
    notified,          \* job -> sequence of JobEvent kinds handed to the notifier
    sent,              \* history: job -> statuses accepted by the channel, in order
    recvd,             \* history: job -> statuses the consumer received, in order
    cleanup,           \* history: job -> record of the job's cleanup_device call
    milestones,        \* history: job -> order of the consumer's terminal steps
    verify,            \* history: job -> what the producer's verification gate did
    destinations,      \* backup directory: path -> [exists, writers]
    job_dest,          \* job -> [path, found]: its destination, what the engine found
    transfer_error,    \* history: job -> kind of the error transfer() returned
    readResult,        \* result of the last persistence read (SpecDb)
    db_targets,        \* targets table: set of target ids (device uuids)
    db_jobs,           \* jobs table: job -> target_id of its row, "" without a row
    create_result,     \* history: [job, fail_at] of the last create call (SpecDb)
    tracker_ops,       \* history: update / remove calls made on the registry, in order
    tracker_read,      \* result of the last get / active_count on the registry
    tracker_snapshot,  \* the map a caller of get_all holds, and when it was taken
    sim_calls,         \* history: add_device / remove_device calls on the controller, in order
    sim_cmds,          \* the simulated adapter's unbounded command channel
    sim_started,       \* SimulatedAdapter::start was called (the bridge task runs)
    sim_received,      \* history: events received from the sink passed to start, in order
    th_last,           \* LogThrottle.last_log_ms (AtomicU64)
    th_clock,          \* LogThrottle.start.elapsed() in ms
    th_resets,         \* history: number of reset calls made
    th_calls,          \* thread -> its should_log call: position, locals, last result
    th_granted,        \* history: the should_log calls that returned true, in order
    cancelled,         \* LinuxAdapter.cancel_token is cancelled (stop was called)
    udev_pc,           \* position of the udev monitor thread
    udev_chan,         \* number of UdevEventData queued in the udev channel
    fwd_pc,            \* position of the event processor task
    hotplugged,        \* history: number of hot-plug events the kernel delivered
    source_tree,       \* one transfer: path -> entry of the source directory
    dest_tree,         \* one transfer: path -> file under the destination
    touched,           \* one transfer: the destination was changed after the copy
    scan_result,       \* one transfer: ScanResult of scan_directory
    native,            \* one transfer: position and counters of the copy loop
    emitted,           \* one transfer: in_progress statuses emitted, in order
    file_hashes,       \* one transfer: FileHash records of the result
    verified           \* one transfer: what the verifier returned

vars == << config, attachLeft, removeLeft, unplugged, burst, faultsLeft, sysMount, mounted_by_us, events,
           tx_open, orch,
           next_job, job_dev, job_status_log, now, progress_tracker, chan,
           rx_dropped, producer, ipLeft, consumer, started_task, notified,
           sent, recvd, cleanup, milestones, verify, destinations, job_dest,
           transfer_error, readResult, db_targets, db_jobs, create_result,
           tracker_ops, tracker_read, tracker_snapshot,
           sim_calls, sim_cmds, sim_started, sim_received,
           th_last, th_clock, th_resets, th_calls, th_granted,
           cancelled, udev_pc, udev_chan, fwd_pc, hotplugged,
           source_tree, dest_tree, touched, scan_result, native, emitted,
           file_hashes, verified >>

\* calls made on the progress registry directly, and what they returned
trackerVars == << tracker_ops, tracker_read, tracker_snapshot >>

\* the simulated adapter driven through its controller
simVars == << sim_calls, sim_cmds, sim_started, sim_received >>

\* a LogThrottle shared by several threads
throttleVars == << th_last, th_clock, th_resets, th_calls, th_granted >>

\* the two tasks LinuxAdapter::start spawns, run step by step
stopVars == << cancelled, udev_pc, udev_chan, fwd_pc, hotplugged >>

\* state of the components driven on their own
unitVars == << trackerVars, simVars, throttleVars, stopVars >>

\* the two ends of the event channel
loopVars == << tx_open, orch >>

\* the tables of the database next to job_status_log
dbTables == << db_targets, db_jobs, create_result >>

\* the state of the single transfer the file-level specifications follow
fileVars == << source_tree, dest_tree, touched, scan_result, native, emitted,
               file_hashes, verified >>

adapterVars == << attachLeft, removeLeft, unplugged, sysMount, mounted_by_us, events >>
dbVars == << job_status_log, now >>
chanVars == << chan, sent >>

NoDev == [uuid |-> "", mount_point |-> "none"]
BlockDevice(u, mp) == [uuid |-> u, mount_point |-> mp]

NoCleanup == [called |-> FALSE, in_table |-> FALSE, unmount_tried |-> FALSE,
              unmounted |-> FALSE, table_changed |-> FALSE, result |-> "none"]

NoRead == [job |-> 0, status |-> "", newest |-> ""]

\* Destination directories <backup_directory>/<label>/<timestamp>.  The first
\* may be there already when the daemon starts (left by an earlier run).
DestPaths == << "d1", "d2", "d3", "d4" >>

NoDest == [path |-> "", found |-> "unchecked"]

InitialDestinations ==
    { d \in [{ DestPaths[k] : k \in JobIds } -> [exists : BOOLEAN, writers : {{}}]] :
        \A k \in JobIds : k > 1 => ~d[DestPaths[k]].exists }

\* build_destination: label and local time to the second; an attach may
\* compute the path of an earlier one, or a fresh one
build_destination(j) == { DestPaths[k] : k \in 1 .. j }

\* file-level state of a daemon that is not followed at file level
NoTree == << >>
NoScan == [files |-> << >>, total_bytes |-> 0]
NoCopyResult == [returned |-> "none", at_file |-> "", count |-> 0, listed |-> << >>, more |-> 0]
NoCopy == [pc |-> "idle", i |-> 0, bytes_copied |-> 0, last_progress_update |-> 0,
           errors |-> << >>, attempts |-> << >>, result |-> NoCopyResult]
NoVerify == [returned |-> "none", files_verified |-> 0, bytes_verified |-> 0,
             count |-> 0, listed |-> << >>, more |-> 0]

Configs == [transfer_engine : TransferEngineTypes,
            verify_transfers : BOOLEAN,
            simulation : {FALSE},
            notifier : BOOLEAN]


(***************************************************************************)
(* Persistence operations (db/jobs.rs).  A status log is the sequence of   *)
(* job_status_log rows of one job in insertion order; created_at is the    *)
(* column default, the database clock at insertion.                        *)
(***************************************************************************)
\* the optional columns (description, total_bytes, duration_secs) that are
\* not NULL in a row
JobStatusEntry(status, columns, t) ==
    [status |-> status, columns |-> columns, created_at |-> t]

\* create: the transaction's third statement inserts the 'Ready' entry
create(t) == << JobStatusEntry("Ready", {"description"}, t) >>

\* the consumer writing the payload of complete into no column
ConsumerColumns_NoPayload(tag) == IF tag = "failed" THEN {"description"} ELSE {}

\* the arguments the consumer passes to update_status for each persisted
\* status (orchestrator.rs:237-292): copy_complete (None, None, None),
\* complete (None, Some(total_bytes), Some(duration_secs)),
\* failed (Some(error), None, None)
ConsumerColumns(tag) ==
    CASE tag = "complete" -> {"total_bytes", "duration_secs"}
      [] tag = "failed" -> {"description"}
      [] OTHER -> {}

\* the database as one value: the three tables create writes
Database(targets, jobs, log) == [targets |-> targets, jobs |-> jobs, log |-> log]

NoRow == ""

\* the threads sharing one LogThrottle
Threads == {"t1", "t2"}
\* const NEVER_LOGGED: u64 = u64::MAX, the sentinel for "never logged"; here
\* the largest integer of the model checker, above every clock value
NEVER_LOGGED == 2147483647
NoCall == [pc |-> "idle", now_ms |-> 0, last |-> 0, begun |-> 0, calls |-> 0,
           result |-> "none"]
NoTrackerRead == [kind |-> "none", job |-> 0, value |-> None, count |-> 0, at |-> 0]
NoSnapshot == [taken |-> FALSE, map |-> << >>, at |-> 0]
NoCreate == [job |-> 0, fail_at |-> 0]

\* create's statements, each applied to the state the one before left:
\* upsert of the target, insert of the job row, insert of the 'Ready' entry
UpsertTarget(db, uuid) == [db EXCEPT !.targets = @ \cup {uuid}]
InsertJob(db, job_id, uuid) == [db EXCEPT !.jobs[job_id] = uuid]
InsertReady(db, job_id, t) == [db EXCEPT !.log[job_id] = create(t)]

\* the steps at which a call of create can fail: 0 none, 1..3 the
\* statement of that number, 4 the commit
CreateFailures == 0 .. 4

\* create without a transaction: every statement commits by itself, so the
\* statements before the failing one stay
create_tx_Autocommit(db, job_id, uuid, t, fail_at) ==
    LET s1 == UpsertTarget(db, uuid)
        s2 == InsertJob(s1, job_id, uuid)
        s3 == InsertReady(s2, job_id, t)
    IN  CASE fail_at = 0 -> s3
          [] fail_at = 1 -> db
          [] fail_at = 2 -> s1
          [] fail_at = 3 -> s2
          [] OTHER -> s3

\* create (db/jobs.rs:7-51): the three statements run inside c.transaction();
\* `?` on a failing statement or commit drops the transaction, which rolls
\* back, so the database is as before the call
create_tx(db, job_id, uuid, t, fail_at) ==
    LET s1 == UpsertTarget(db, uuid)
        s2 == InsertJob(s1, job_id, uuid)
        s3 == InsertReady(s2, job_id, t)
    IN  IF fail_at = 0 THEN s3 ELSE db

\* update_status: one INSERT INTO job_status_log
update_status(log, status, columns, t) == Append(log, JobStatusEntry(status, columns, t))

\* The rows "ORDER BY created_at DESC LIMIT 1" may return: SQL leaves the
\* order of rows with equal created_at unspecified, so every row carrying
\* the largest created_at is a possible first row.
NewestByCreatedAt(log) ==
    { i \in 1 .. Len(log) : \A k \in 1 .. Len(log) : log[k].created_at <= log[i].created_at }

\* get / list / get_with_history: the statuses the job's status column may hold
get(log) ==
    IF Len(log) = 0 THEN {"Unknown"} ELSE { log[i].status : i \in NewestByCreatedAt(log) }

\* list with a status filter (db/jobs.rs:100-154): the jobs of the jobs table
\* for which the newest status row `= ?1`; the comparison is SQL text
\* equality, under which 'Ready' and 'ready' differ.  A job with several
\* newest rows is included when any of them may be the row compared.
list(logs, status_filter) ==
    { j \in DOMAIN logs : Len(logs[j]) > 0 /\ status_filter \in get(logs[j]) }

IsTerminalStatus(status) == status \in TerminalTags

TerminalEntries(log) == { i \in 1 .. Len(log) : IsTerminalStatus(log[i].status) }

(***************************************************************************)
(* Environment faults are drawn from a budget.                             *)
(***************************************************************************)
Fault == faultsLeft > 0 /\ faultsLeft' = faultsLeft - 1
NoFault == UNCHANGED faultsLeft

(***************************************************************************)
(* Progress channel (tokio mpsc, orchestrator.rs:144).                     *)
(***************************************************************************)
\* ChanPush putting the new value in front of the queue
ChanPush_Lifo(q, m) == << m >> \o q

\* the queue after one more value is accepted (FIFO)
ChanPush(q, m) == Append(q, m)

\* Sender::send / blocking_send completes: at once with an error when the
\* receiver is gone, otherwise as soon as the queue has room.
CanSend(j) == rx_dropped[j] \/ Len(chan[j]) < ProgressChannelCapacity

\* a send that waits for room even when the receiver is gone
Send_WaitsForReceiver(j, m) ==
    /\ ~rx_dropped[j]
    /\ Len(chan[j]) < ProgressChannelCapacity
    /\ chan' = [chan EXCEPT ![j] = ChanPush(@, m)]
    /\ sent' = [sent EXCEPT ![j] = Append(@, m)]

Send(j, m) ==
    /\ CanSend(j)
    /\ IF rx_dropped[j]
       THEN UNCHANGED chanVars
       ELSE /\ chan' = [chan EXCEPT ![j] = ChanPush(@, m)]
            /\ sent' = [sent EXCEPT ![j] = Append(@, m)]

(***************************************************************************)
(* Linux hardware adapter: process_event_data (adapters/linux.rs).         *)
(***************************************************************************)
Forward(ev) == events' = Append(events, ev)

DeviceAdded(dev) == [kind |-> "DeviceAdded", dev |-> dev]
DeviceRemoved(u) == [kind |-> "DeviceRemoved", dev |-> BlockDevice(u, "none")]

\* the already-mounted branch recording the reused mount as the daemon's own
OnAlreadyMounted_Record(table, u) == table \cup {u}

\* `if let Some(existing) = get_mount_point(&devnode) { existing }`: the
\* branch does not touch mount_state
OnAlreadyMounted(table, u) == table

\* Add, get_mount_point finds the device mounted: by the daemon earlier, or by
\* someone else (an automounter) before the adapter looked.  The mount point
\* is reused and the mount table is left alone.
AdapterAddExisting(u) ==
    /\ ~config.simulation
    /\ tx_open
    /\ NoFault
    /\ attachLeft > 0
    /\ Len(events) < EventChannelCapacity
    /\ attachLeft' = attachLeft - 1
    /\ sysMount' = [sysMount EXCEPT ![u] = IF @ = "none" THEN "ext" ELSE @]
    /\ Forward(DeviceAdded(BlockDevice(u, sysMount'[u])))
    /\ mounted_by_us' = OnAlreadyMounted(mounted_by_us, u)
    /\ UNCHANGED << removeLeft, unplugged >>

\* Add, not mounted, mount_device succeeds: record (uuid -> mount point)
AdapterAddMounted(u) ==
    /\ ~config.simulation
    /\ tx_open
    /\ NoFault
    /\ attachLeft > 0
    /\ Len(events) < EventChannelCapacity
    /\ sysMount[u] = "none"
    /\ attachLeft' = attachLeft - 1
    /\ sysMount' = [sysMount EXCEPT ![u] = "bksd"]
    /\ mounted_by_us' = mounted_by_us \cup {u}
    /\ Forward(DeviceAdded(BlockDevice(u, "bksd")))
    /\ unplugged' = [unplugged EXCEPT ![u] = IF @ = "removed" THEN "remounted" ELSE @]
    /\ UNCHANGED removeLeft

\* the Err arm forwarding the device all the same
OnMountError_Forward(evs, u) == Append(evs, DeviceAdded(BlockDevice(u, "none")))

\* the Err arm of mount_device: `return None`, no event for the orchestrator
OnMountError(evs, u) == evs

\* Add, not mounted, mount_device fails: the event is dropped
AdapterAddMountFailed(u) ==
    /\ ~config.simulation
    /\ tx_open
    /\ Fault
    /\ attachLeft > 0
    /\ sysMount[u] = "none"
    /\ attachLeft' = attachLeft - 1
    /\ events' = OnMountError(events, u)
    /\ UNCHANGED << removeLeft, unplugged, sysMount, mounted_by_us >>

\* the Remove arm leaving mount_state alone
OnRemove_Keep(table, u) == table

\* `mount_state.lock().unwrap().mounted_by_us.remove(&uuid)`
OnRemove(table, u) == table \ {u}

\* Remove: forget the uuid (no unmount) and forward DeviceRemoved
AdapterRemove(u) ==
    /\ ~config.simulation
    /\ tx_open
    /\ NoFault
    /\ removeLeft > 0
    /\ Len(events) < EventChannelCapacity
    /\ removeLeft' = removeLeft - 1
    /\ mounted_by_us' = OnRemove(mounted_by_us, u)
    /\ Forward(DeviceRemoved(u))
    /\ unplugged' = [unplugged EXCEPT ![u] = "removed"]
    /\ UNCHANGED << attachLeft, sysMount >>

jobVars == << next_job, job_dev, job_status_log, now, progress_tracker, chan,
              rx_dropped, producer, ipLeft, consumer, started_task, notified,
              sent, recvd, cleanup, milestones, verify, destinations, job_dest,
              transfer_error >>

\* the processor task ends (linux.rs:104-120: the udev channel closed, the
\* cancel token set, or a send failed) and drops the event sender
AdapterStop ==
    /\ tx_open
    /\ tx_open' = FALSE
    /\ UNCHANGED << adapterVars, orch, faultsLeft >>
    /\ UNCHANGED fileVars
    /\ UNCHANGED unitVars
    /\ UNCHANGED dbTables
    /\ UNCHANGED << config, burst, readResult >>
    /\ UNCHANGED jobVars

adapterFrame ==
    /\ UNCHANGED << config, burst, readResult >>
    /\ UNCHANGED fileVars
    /\ UNCHANGED unitVars
    /\ UNCHANGED loopVars
    /\ UNCHANGED dbTables
    /\ UNCHANGED jobVars

\* hot-plug events the adapter handles without a fault
Adapter ==
    \E u \in Uuids :
        \/ AdapterAddExisting(u) /\ adapterFrame
        \/ AdapterAddMounted(u) /\ adapterFrame

AdapterMountFailed == \E u \in Uuids : AdapterAddMountFailed(u) /\ adapterFrame

AdapterRemoved == \E u \in Uuids : AdapterRemove(u) /\ adapterFrame

(***************************************************************************)
(* Simulated adapter (adapters/simulated.rs), chosen by get_adapter when   *)
(* config.simulation is set: the controller's add_device is bridged to the *)
(* orchestrator as DeviceAdded with a made-up mount point; nothing is      *)
(* mounted and there is no mount table.                                    *)
(***************************************************************************)
SimulatedInjectAdd(u) ==
    /\ config.simulation
    /\ NoFault
    /\ attachLeft > 0
    /\ Len(events) < EventChannelCapacity
    /\ attachLeft' = attachLeft - 1
    /\ Forward(DeviceAdded(BlockDevice(u, "sim")))
    /\ UNCHANGED << removeLeft, unplugged, sysMount, mounted_by_us >>

SimulatedAdapter == \E u \in Uuids : SimulatedInjectAdd(u) /\ adapterFrame

(***************************************************************************)
(* Orchestrator event loop (core/orchestrator.rs).                         *)
(***************************************************************************)
\* the loop ending as soon as a handler met an error
AfterHandle_Propagate(result) == IF result = "err" THEN "returned" ELSE "running"

\* `self.handle_device_event(event).await;` returns (): whatever the handler
\* met, the `while let` loop goes on to the next recv
AfterHandle(result) == "running"

\* rx.recv() yields None once every sender is dropped and the queue is
\* empty: the loop ends and start returns Ok(())
OrchReturn ==
    /\ orch = "running"
    /\ ~tx_open
    /\ events = << >>
    /\ orch' = "returned"
    /\ UNCHANGED << adapterVars, tx_open, faultsLeft >>
    /\ UNCHANGED fileVars
    /\ UNCHANGED unitVars
    /\ UNCHANGED dbTables
    /\ UNCHANGED << config, burst, readResult >>
    /\ UNCHANGED jobVars

\* handle_device_removed: the event is logged
OrchDeviceRemoved ==
    /\ NoFault
    /\ orch = "running"
    /\ Len(events) > 0
    /\ Head(events).kind = "DeviceRemoved"
    /\ events' = Tail(events)
    /\ orch' = AfterHandle("ok")
    /\ UNCHANGED << attachLeft, removeLeft, unplugged, sysMount, mounted_by_us, tx_open >>
    /\ UNCHANGED fileVars
    /\ UNCHANGED unitVars
    /\ UNCHANGED dbTables
    /\ UNCHANGED << config, burst, readResult >>
    /\ UNCHANGED jobVars

\* the next event getting the id of the job before it
FreshJobId_Reuse(j) == j

\* `uuid::Uuid::now_v7().to_string()` (orchestrator.rs:88): each call of
\* handle_device_added draws an id no earlier call drew; ids are numbered in
\* the order drawn, FreshJobId(j) being the one drawn after j
FreshJobId(j) == j + 1

\* the started notification spawned although create failed
OnCreateError_Spawn(tasks, j) == [tasks EXCEPT ![j] = "pending"]

\* the Err arm of db::jobs::create: `return` before anything is spawned
OnCreateError(tasks, j) == tasks

\* handle_device_added, db::jobs::create fails: return, nothing is spawned
OrchCreateFailed ==
    /\ Fault
    /\ orch = "running"
    /\ Len(events) > 0
    /\ Head(events).kind = "DeviceAdded"
    /\ events' = Tail(events)
    /\ next_job' = FreshJobId(next_job)
    /\ started_task' = OnCreateError(started_task, next_job)
    /\ orch' = AfterHandle("err")
    /\ UNCHANGED << attachLeft, removeLeft, unplugged, sysMount, mounted_by_us, tx_open >>
    /\ UNCHANGED fileVars
    /\ UNCHANGED unitVars
    /\ UNCHANGED dbTables
    /\ UNCHANGED << config, burst, readResult >>
    /\ UNCHANGED << job_dev, job_status_log, now, progress_tracker, chan,
                    rx_dropped, producer, ipLeft, consumer, notified,
                    sent, recvd, cleanup, milestones, verify, destinations, job_dest,
                    transfer_error >>

\* handle_device_added: create the job, spawn the started notification, the
\* producer task and the consumer task
OrchDeviceAdded ==
    /\ NoFault
    /\ orch = "running"
    /\ Len(events) > 0
    /\ Head(events).kind = "DeviceAdded"
    /\ events' = Tail(events)
    /\ LET j == next_job IN
        /\ next_job' = FreshJobId(j)
        /\ job_dev' = [job_dev EXCEPT ![j] = Head(events).dev]
        /\ \E path \in build_destination(j) :
              job_dest' = [job_dest EXCEPT ![j] = [path |-> path, found |-> "unchecked"]]
        /\ LET db == create_tx(Database(db_targets, db_jobs, job_status_log),
                                j, Head(events).dev.uuid, now, 0)
           IN  /\ db_targets' = db.targets
               /\ db_jobs' = db.jobs
               /\ job_status_log' = db.log
        /\ started_task' = [started_task EXCEPT ![j] =
                              IF config.notifier THEN "pending" ELSE "none"]
        /\ producer' = [producer EXCEPT ![j] = "send_ready"]
        /\ ipLeft' = [ipLeft EXCEPT ![j] = burst]
        /\ consumer' = [consumer EXCEPT ![j] = [pc |-> "recv", status |-> None]]
    /\ orch' = AfterHandle("ok")
    /\ UNCHANGED << attachLeft, removeLeft, unplugged, sysMount, mounted_by_us, tx_open >>
    /\ UNCHANGED fileVars
    /\ UNCHANGED unitVars
    /\ UNCHANGED << config, burst, readResult, create_result >>
    /\ UNCHANGED << now, progress_tracker, chan, rx_dropped, notified,
                    sent, recvd, cleanup, milestones, verify, destinations,
                    transfer_error >>

\* the detached task spawned for the started notification
StartedReturns(j) ==
    /\ started_task[j] = "pending"
    /\ started_task' = [started_task EXCEPT ![j] = "done"]
    /\ notified' = [notified EXCEPT ![j] = Append(@, "started")]
    /\ UNCHANGED adapterVars
    /\ UNCHANGED fileVars
    /\ UNCHANGED unitVars
    /\ UNCHANGED loopVars
    /\ UNCHANGED dbTables
    /\ UNCHANGED << config, burst, readResult >>
    /\ UNCHANGED << next_job, job_dev, job_status_log, now, progress_tracker, chan,
                    rx_dropped, producer, ipLeft, consumer, sent, recvd, cleanup,
                    milestones, verify, destinations, job_dest, transfer_error >>

StartedNotify(j) == NoFault /\ StartedReturns(j)

\* the started notification returns Err inside its detached task: warn!
StartedNotifyFailed(j) == Fault /\ StartedReturns(j)

(***************************************************************************)
(* Producer task: the transfer engine's transfer() followed by the         *)
(* orchestrator's handling of its result (orchestrator.rs:165-217).        *)
(* Positions of producer[j]:                                               *)
(*   idle           no task                                                *)
(*   send_ready     engine about to send Ready                             *)
(*   check_dest     engine at the destination-must-not-exist check         *)
(*   create_dest    engine about to create the destination directory       *)
(*   running        engine copying                                         *)
(*   engine_failed  engine about to send Failed and return Err             *)
(*   transfer_err   transfer() returned Err                                *)
(*   transfer_ok    transfer() returned Ok                                 *)
(*   after_copy     CopyComplete sent, verification next                   *)
(*   done           task finished, its senders dropped                     *)
(***************************************************************************)
producerFrame ==
    /\ NoFault
    /\ UNCHANGED fileVars
    /\ UNCHANGED unitVars
    /\ UNCHANGED loopVars
    /\ UNCHANGED dbTables
    /\ UNCHANGED adapterVars
    /\ UNCHANGED << config, burst, readResult >>
    /\ UNCHANGED << next_job, job_dev, job_status_log, now, progress_tracker,
                    rx_dropped, consumer, started_task, notified, recvd, cleanup,
                    milestones >>

\* How transfer() may end.  err_reported: the engine sent Failed itself before
\* returning Err (native_copy.rs:59-66, 69-73, 89-93, 123-127, 166-170,
\* rsync.rs:32-45, 149-157).  err_unreported: Err through `?` without a Failed
\* (rsync.rs:75, 80, 136).
EngineOutcomes(engine) ==
    CASE engine = "native_copy" -> {"ok", "err_reported"}
      [] engine = "rsync" -> {"ok", "err_reported", "err_unreported"}
      [] engine = "simulated" -> {"ok"}

\* the result of the engine carries per-file hashes
ResultHasHashes(engine) == engine = "native_copy"

\* VerificationApplicable without the `!config.simulation` conjunct
VerificationApplicable_IgnoresSimulation ==
    /\ config.verify_transfers
    /\ ResultHasHashes(config.transfer_engine)

\* orchestrator.rs:175-176: the verifier runs
VerificationApplicable ==
    /\ config.verify_transfers
    /\ ~config.simulation
    /\ ResultHasHashes(config.transfer_engine)

\* the engine goes on without looking at the destination
DestinationCheck_Overwrite(exists) == "create_dest"

\* native_copy.rs:58-66, rsync.rs:31-39: `if destination.exists()`
DestinationCheck(exists) == IF exists THEN "engine_failed" ELSE "create_dest"

EngineSendReady(j) ==
    /\ producer[j] = "send_ready"
    /\ Send(j, TransferStatus("ready", 0))
    /\ producer' = [producer EXCEPT ![j] =
                      IF config.transfer_engine = "simulated" THEN "running"
                      ELSE "check_dest"]
    /\ UNCHANGED << ipLeft, destinations, job_dest, transfer_error >>
    /\ UNCHANGED verify
    /\ producerFrame

\* the safety check of the native and rsync engines
EngineCheckDestination(j) ==
    /\ producer[j] = "check_dest"
    /\ LET exists == destinations[job_dest[j].path].exists
           next == DestinationCheck(exists)
       IN  /\ job_dest' = [job_dest EXCEPT ![j].found =
                              IF exists THEN "exists" ELSE "absent"]
           /\ producer' = [producer EXCEPT ![j] = next]
           /\ transfer_error' = [transfer_error EXCEPT ![j] =
                                    IF next = "engine_failed" THEN "already exists" ELSE @]
    /\ UNCHANGED << ipLeft, chan, sent, verify, destinations >>
    /\ producerFrame

\* create_dir_all(destination) succeeds
EngineCreateDestination(j) ==
    /\ producer[j] = "create_dest"
    /\ destinations' = [destinations EXCEPT ![job_dest[j].path] =
                           [exists |-> TRUE, writers |-> @.writers \cup {j}]]
    /\ producer' = [producer EXCEPT ![j] = "running"]
    /\ UNCHANGED << ipLeft, chan, sent, job_dest, transfer_error >>
    /\ UNCHANGED verify
    /\ producerFrame

EngineSendProgress(j) ==
    /\ producer[j] = "running"
    /\ ipLeft[j] > 0
    /\ Send(j, TransferStatus("in_progress", burst - ipLeft[j] + 1))
    /\ ipLeft' = [ipLeft EXCEPT ![j] = @ - 1]
    /\ UNCHANGED producer
    /\ UNCHANGED verify
    /\ UNCHANGED << destinations, job_dest, transfer_error >>
    /\ producerFrame

EngineReturn(j) ==
    /\ producer[j] = "running"
    /\ \E outcome \in EngineOutcomes(config.transfer_engine) :
          /\ producer' = [producer EXCEPT ![j] =
                            CASE outcome = "ok" -> "transfer_ok"
                              [] outcome = "err_reported" -> "engine_failed"
                              [] outcome = "err_unreported" -> "transfer_err"]
          /\ transfer_error' = [transfer_error EXCEPT ![j] =
                                   IF outcome = "ok" THEN @ ELSE "other"]
    /\ UNCHANGED << ipLeft, chan, sent, verify, destinations, job_dest >>
    /\ producerFrame

\* the engine's own `tx.send(TransferStatus::Failed(msg))` before `return Err`
EngineSendFailed(j) ==
    /\ producer[j] = "engine_failed"
    /\ Send(j, TransferStatus("failed", 0))
    /\ producer' = [producer EXCEPT ![j] = "transfer_err"]
    /\ UNCHANGED ipLeft
    /\ UNCHANGED verify
    /\ UNCHANGED << destinations, job_dest, transfer_error >>
    /\ producerFrame

\* orchestrator.rs:210-215: Err(e) => send Failed(e.to_string())
ProducerSendFailed(j) ==
    /\ producer[j] = "transfer_err"
    /\ Send(j, TransferStatus("failed", 0))
    /\ producer' = [producer EXCEPT ![j] = "done"]
    /\ UNCHANGED ipLeft
    /\ UNCHANGED verify
    /\ UNCHANGED << destinations, job_dest, transfer_error >>
    /\ producerFrame

\* orchestrator.rs:172: Ok(result) => send CopyComplete
ProducerSendCopyComplete(j) ==
    /\ producer[j] = "transfer_ok"
    /\ Send(j, TransferStatus("copy_complete", 0))
    /\ producer' = [producer EXCEPT ![j] = "after_copy"]
    /\ UNCHANGED ipLeft
    /\ UNCHANGED verify
    /\ UNCHANGED << destinations, job_dest, transfer_error >>
    /\ producerFrame

\* orchestrator.rs:175-208: verification passed or not applicable, send Complete
ProducerSendComplete(j) ==
    /\ producer[j] = "after_copy"
    /\ verify' = [verify EXCEPT ![j] = IF VerificationApplicable THEN "ok" ELSE "skipped"]
    /\ Send(j, TransferStatus("complete", 0))
    /\ producer' = [producer EXCEPT ![j] = "done"]
    /\ UNCHANGED ipLeft
    /\ UNCHANGED << destinations, job_dest, transfer_error >>
    /\ producerFrame

\* orchestrator.rs:183-188: the verifier returned Err, send Failed, no Complete
ProducerSendVerifyFailed(j) ==
    /\ producer[j] = "after_copy"
    /\ VerificationApplicable
    /\ verify' = [verify EXCEPT ![j] = "err"]
    /\ Send(j, TransferStatus("failed", 0))
    /\ producer' = [producer EXCEPT ![j] = "done"]
    /\ UNCHANGED ipLeft
    /\ UNCHANGED << destinations, job_dest, transfer_error >>
    /\ producerFrame

Producer(j) ==
    \/ EngineSendReady(j)
    \/ EngineCheckDestination(j)
    \/ EngineCreateDestination(j)
    \/ EngineSendProgress(j)
    \/ EngineReturn(j)
    \/ EngineSendFailed(j)
    \/ ProducerSendFailed(j)
    \/ ProducerSendCopyComplete(j)
    \/ ProducerSendComplete(j)
    \/ ProducerSendVerifyFailed(j)


(***************************************************************************)
(* Consumer task (orchestrator.rs:220-314).  Positions of consumer[j].pc:  *)
(*   idle            no task                                               *)
(*   recv            at progress_rx.recv()                                 *)
(*   persist         at db::jobs::update_status for consumer[j].status     *)
(*   notify          at notifier.notify                                    *)
(*   cleanup         at adapter.cleanup_device                             *)
(*   cleanup_umount  inside cleanup_device, at umount2                     *)
(*   cleanup_untrack inside cleanup_device, at mounted_by_us.remove        *)
(*   remove          at progress_tracker.remove followed by break          *)
(*   done            task finished, progress_rx dropped                    *)
(***************************************************************************)
PersistedTags == {"copy_complete", "complete", "failed"}

\* what follows the notification of a terminal status: Complete goes on to
\* cleanup_device (orchestrator.rs:275-278), Failed does not (:294-306)
AfterNotify(tag) == IF tag = "complete" THEN "cleanup" ELSE "remove"

\* ConsumerNext without the `break` of the Failed arm: the loop goes on
ConsumerNext_NoBreakOnFailed(pc, tag) ==
    CASE pc = "recv" -> IF tag \in PersistedTags THEN "persist" ELSE "recv"
      [] pc = "persist" -> IF tag = "copy_complete" THEN "recv"
                           ELSE IF config.notifier THEN "notify"
                           ELSE AfterNotify(tag)
      [] pc = "notify" -> AfterNotify(tag)
      [] pc = "cleanup" -> "remove"
      [] pc = "remove" -> IF tag = "failed" THEN "recv" ELSE "done"

\* ConsumerNext with cleanup_device moved in front of update_status in the
\* Complete arm
ConsumerNext_CleanupFirst(pc, tag) ==
    CASE pc = "recv" -> IF tag = "complete" THEN "cleanup"
                        ELSE IF tag \in PersistedTags THEN "persist" ELSE "recv"
      [] pc = "persist" -> IF tag = "copy_complete" THEN "recv"
                           ELSE IF config.notifier THEN "notify"
                           ELSE "remove"
      [] pc = "notify" -> "remove"
      [] pc = "cleanup" -> "persist"
      [] pc = "remove" -> "done"

\* The order of the consumer's steps for one received status: the match of
\* orchestrator.rs:236-310, from the position just left to the next one.
ConsumerNext(pc, tag) ==
    CASE pc = "recv" -> IF tag \in PersistedTags THEN "persist" ELSE "recv"
      [] pc = "persist" -> IF tag = "copy_complete" THEN "recv"
                           ELSE IF config.notifier THEN "notify"
                           ELSE AfterNotify(tag)
      [] pc = "notify" -> AfterNotify(tag)
      [] pc = "cleanup" -> "remove"
      [] pc = "remove" -> "done"

\* every consumer writing under the id of the first job
job_id_for_consumer_Shared(j) == 1

\* orchestrator.rs:162: the consumer task's own clone of its job's id, the
\* key of all its registry and status-log writes
job_id_for_consumer(j) == j

consumerFrame ==
    /\ UNCHANGED fileVars
    /\ UNCHANGED unitVars
    /\ UNCHANGED loopVars
    /\ UNCHANGED dbTables
    /\ UNCHANGED << attachLeft, removeLeft, unplugged, events >>
    /\ UNCHANGED << config, burst, readResult >>
    /\ UNCHANGED << next_job, job_dev, now, producer, ipLeft, started_task, sent,
                    verify, destinations, job_dest, transfer_error >>

SetPc(j, pc) == consumer' = [consumer EXCEPT ![j].pc = pc]

Tag(j) == consumer[j].status.tag

\* recv() yields the oldest queued status; tracker.update stores it
ConsumerRecv(j) ==
    /\ NoFault
    /\ consumer[j].pc = "recv"
    /\ Len(chan[j]) > 0
    /\ LET status == Head(chan[j]) IN
        /\ chan' = [chan EXCEPT ![j] = Tail(@)]
        /\ recvd' = [recvd EXCEPT ![j] = Append(@, status)]
        /\ progress_tracker' = [progress_tracker EXCEPT ![job_id_for_consumer(j)] = status]
        /\ consumer' = [consumer EXCEPT ![j] =
                          [pc |-> ConsumerNext("recv", status.tag), status |-> status]]
    /\ UNCHANGED << sysMount, mounted_by_us, job_status_log, rx_dropped, notified,
                    cleanup, milestones >>
    /\ consumerFrame

\* update_status succeeds: one entry is appended
ConsumerPersist(j) ==
    /\ NoFault
    /\ consumer[j].pc = "persist"
    /\ job_status_log' = [job_status_log EXCEPT ![job_id_for_consumer(j)] =
                             update_status(@, Tag(j), ConsumerColumns(Tag(j)), now)]
    /\ milestones' = [milestones EXCEPT ![j] =
                        IF Tag(j) \in TerminalTags
                        THEN @ \o << "persist", "appended" >> ELSE @]
    /\ SetPc(j, ConsumerNext("persist", Tag(j)))
    /\ UNCHANGED << sysMount, mounted_by_us, progress_tracker, chan, rx_dropped,
                    notified, recvd, cleanup >>
    /\ consumerFrame

\* update_status returns Err, which `let _ =` drops
ConsumerPersistFailed(j) ==
    /\ Fault
    /\ consumer[j].pc = "persist"
    /\ milestones' = [milestones EXCEPT ![j] =
                        IF Tag(j) \in TerminalTags THEN Append(@, "persist") ELSE @]
    /\ SetPc(j, ConsumerNext("persist", Tag(j)))
    /\ UNCHANGED << sysMount, mounted_by_us, job_status_log, progress_tracker, chan,
                    rx_dropped, notified, recvd, cleanup >>
    /\ consumerFrame

\* a notification error ending the consumer task
AfterNotifyResult_Propagate(result, tag) ==
    IF result = "err" THEN "done" ELSE ConsumerNext("notify", tag)

\* `if let Err(e) = notifier.notify(event).await { warn!(..) }`: whatever
\* notify returned, the consumer goes on to the step after the notification
AfterNotifyResult(result, tag) == ConsumerNext("notify", tag)

\* the notifier call of the consumer returning `result`
NotifyReturns(j, result) ==
    /\ consumer[j].pc = "notify"
    /\ notified' = [notified EXCEPT ![j] =
                      Append(@, IF Tag(j) = "complete" THEN "completed" ELSE "failed")]
    /\ SetPc(j, AfterNotifyResult(result, Tag(j)))
    /\ UNCHANGED << sysMount, mounted_by_us, job_status_log, progress_tracker, chan,
                    rx_dropped, recvd, cleanup, milestones >>
    /\ consumerFrame

\* notifier.notify(Completed | Failed), awaited; its error is only logged
ConsumerNotify(j) == NoFault /\ NotifyReturns(j, "ok")

\* notifier.notify(Completed | Failed) returns Err: warn!, nothing else
ConsumerNotifyFailed(j) == Fault /\ NotifyReturns(j, "err")

(***************************************************************************)
(* LinuxAdapter::cleanup_device (adapters/linux.rs:191-231), called by the *)
(* consumer.  The mount-table lock is not held across umount2, so the      *)
(* membership check, the unmount and the removal are three steps.          *)
(***************************************************************************)
Called(j) == [cleanup[j] EXCEPT !.called = TRUE,
                                !.in_table = job_dev[j].uuid \in mounted_by_us]

\* sync_filesystem fails: `?` returns the error before the table is looked at
CleanupSyncFailed(j) ==
    /\ ~config.simulation
    /\ Fault
    /\ consumer[j].pc = "cleanup"
    /\ cleanup' = [cleanup EXCEPT ![j] = [Called(j) EXCEPT !.result = "err"]]
    /\ milestones' = [milestones EXCEPT ![j] = Append(@, "cleanup")]
    /\ SetPc(j, ConsumerNext("cleanup", Tag(j)))
    /\ UNCHANGED << sysMount, mounted_by_us, job_status_log, progress_tracker, chan,
                    rx_dropped, notified, recvd >>
    /\ consumerFrame

\* sync_filesystem succeeds, the uuid is not in mounted_by_us: Ok(())
CleanupNotOurs(j) ==
    /\ ~config.simulation
    /\ NoFault
    /\ consumer[j].pc = "cleanup"
    /\ job_dev[j].uuid \notin mounted_by_us
    /\ cleanup' = [cleanup EXCEPT ![j] = [Called(j) EXCEPT !.result = "ok"]]
    /\ milestones' = [milestones EXCEPT ![j] = Append(@, "cleanup")]
    /\ SetPc(j, ConsumerNext("cleanup", Tag(j)))
    /\ UNCHANGED << sysMount, mounted_by_us, job_status_log, progress_tracker, chan,
                    rx_dropped, notified, recvd >>
    /\ consumerFrame

\* sync_filesystem succeeds, the uuid is in mounted_by_us: should_unmount
CleanupShouldUnmount(j) ==
    /\ ~config.simulation
    /\ NoFault
    /\ consumer[j].pc = "cleanup"
    /\ job_dev[j].uuid \in mounted_by_us
    /\ cleanup' = [cleanup EXCEPT ![j] = Called(j)]
    /\ milestones' = [milestones EXCEPT ![j] = Append(@, "cleanup")]
    /\ SetPc(j, "cleanup_umount")
    /\ UNCHANGED << sysMount, mounted_by_us, job_status_log, progress_tracker, chan,
                    rx_dropped, notified, recvd >>
    /\ consumerFrame

\* umount2(mount_point, MNT_DETACH) succeeds
CleanupUnmount(j) ==
    /\ NoFault
    /\ consumer[j].pc = "cleanup_umount"
    /\ sysMount' = [sysMount EXCEPT ![job_dev[j].uuid] = "none"]
    /\ cleanup' = [cleanup EXCEPT ![j].unmount_tried = TRUE, ![j].unmounted = TRUE]
    /\ SetPc(j, "cleanup_untrack")
    /\ UNCHANGED << mounted_by_us, job_status_log, progress_tracker, chan,
                    rx_dropped, notified, recvd, milestones >>
    /\ consumerFrame

\* umount2 fails: the error is returned, the table keeps the uuid
CleanupUnmountFailed(j) ==
    /\ Fault
    /\ consumer[j].pc = "cleanup_umount"
    /\ cleanup' = [cleanup EXCEPT ![j].unmount_tried = TRUE, ![j].result = "err"]
    /\ SetPc(j, ConsumerNext("cleanup", Tag(j)))
    /\ UNCHANGED << sysMount, mounted_by_us, job_status_log, progress_tracker, chan,
                    rx_dropped, notified, recvd, milestones >>
    /\ consumerFrame

\* mounted_by_us.remove(uuid), remove_dir, Ok(())
CleanupUntrack(j) ==
    /\ NoFault
    /\ consumer[j].pc = "cleanup_untrack"
    /\ mounted_by_us' = mounted_by_us \ {job_dev[j].uuid}
    /\ cleanup' = [cleanup EXCEPT ![j].table_changed = job_dev[j].uuid \in mounted_by_us,
                                  ![j].result = "ok"]
    /\ SetPc(j, ConsumerNext("cleanup", Tag(j)))
    /\ UNCHANGED << sysMount, job_status_log, progress_tracker, chan,
                    rx_dropped, notified, recvd, milestones >>
    /\ consumerFrame

\* SimulatedAdapter::cleanup_device: Ok(()) and nothing else
SimulatedCleanup(j) ==
    /\ config.simulation
    /\ NoFault
    /\ consumer[j].pc = "cleanup"
    /\ cleanup' = [cleanup EXCEPT ![j] = [Called(j) EXCEPT !.result = "ok"]]
    /\ milestones' = [milestones EXCEPT ![j] = Append(@, "cleanup")]
    /\ SetPc(j, ConsumerNext("cleanup", Tag(j)))
    /\ UNCHANGED << sysMount, mounted_by_us, job_status_log, progress_tracker, chan,
                    rx_dropped, notified, recvd >>
    /\ consumerFrame

\* progress_tracker.remove, then break: the task ends and drops progress_rx
\* together with whatever is still queued
ConsumerRemove(j) ==
    /\ NoFault
    /\ consumer[j].pc = "remove"
    /\ progress_tracker' = [progress_tracker EXCEPT ![job_id_for_consumer(j)] = None]
    /\ milestones' = [milestones EXCEPT ![j] = Append(@, "remove")]
    /\ LET pc == ConsumerNext("remove", Tag(j)) IN
        /\ SetPc(j, pc)
        /\ rx_dropped' = [rx_dropped EXCEPT ![j] = (pc = "done")]
        /\ chan' = [chan EXCEPT ![j] = IF pc = "done" THEN << >> ELSE @]
    /\ UNCHANGED << sysMount, mounted_by_us, job_status_log, notified, recvd, cleanup >>
    /\ consumerFrame

\* the consumer's steps in which every call it makes succeeds
Consumer(j) ==
    \/ ConsumerRecv(j)
    \/ ConsumerPersist(j)
    \/ ConsumerNotify(j)
    \/ CleanupNotOurs(j)
    \/ CleanupShouldUnmount(j)
    \/ CleanupUnmount(j)
    \/ CleanupUntrack(j)
    \/ ConsumerRemove(j)

\* the consumer's steps in which a call fails
ConsumerFault(j) ==
    \/ ConsumerPersistFailed(j)
    \/ CleanupSyncFailed(j)
    \/ CleanupUnmountFailed(j)

(***************************************************************************)
(* Specifications.                                                         *)
(***************************************************************************)
\* no transfer is followed at file level
FileIdle ==
    /\ source_tree = NoTree
    /\ dest_tree = NoTree
    /\ touched = FALSE
    /\ scan_result = NoScan
    /\ native = NoCopy
    /\ emitted = << >>
    /\ file_hashes = << >>
    /\ verified = NoVerify

\* the daemon after Orchestrator::new
InitPipeline(cfgs, attach, removes, b, faults) ==
    /\ config \in cfgs
    /\ attachLeft = attach
    /\ removeLeft = removes
    /\ unplugged = [u \in Uuids |-> "no"]
    /\ burst = b
    /\ faultsLeft = faults
    /\ sysMount = [u \in Uuids |-> "none"]
    /\ mounted_by_us = {}
    /\ events = << >>
    /\ tx_open = TRUE
    /\ orch = "running"
    /\ next_job = 1
    /\ job_dev = [j \in JobIds |-> NoDev]
    /\ job_status_log = [j \in JobIds |-> << >>]
    /\ now = 0
    /\ progress_tracker = [j \in JobIds |-> None]
    /\ chan = [j \in JobIds |-> << >>]
    /\ rx_dropped = [j \in JobIds |-> FALSE]
    /\ producer = [j \in JobIds |-> "idle"]
    /\ ipLeft = [j \in JobIds |-> 0]
    /\ consumer = [j \in JobIds |-> [pc |-> "idle", status |-> None]]
    /\ started_task = [j \in JobIds |-> "none"]
    /\ notified = [j \in JobIds |-> << >>]
    /\ sent = [j \in JobIds |-> << >>]
    /\ recvd = [j \in JobIds |-> << >>]
    /\ cleanup = [j \in JobIds |-> NoCleanup]
    /\ milestones = [j \in JobIds |-> << >>]
    /\ verify = [j \in JobIds |-> "none"]
    /\ destinations \in InitialDestinations
    /\ job_dest = [j \in JobIds |-> NoDest]
    /\ transfer_error = [j \in JobIds |-> "none"]
    /\ readResult = NoRead
    /\ db_targets = {}
    /\ db_jobs = [j \in JobIds |-> NoRow]
    /\ create_result = NoCreate
    /\ tracker_ops = << >>
    /\ tracker_read = NoTrackerRead
    /\ tracker_snapshot = NoSnapshot
    /\ sim_calls = << >>
    /\ sim_cmds = << >>
    /\ sim_started = FALSE
    /\ sim_received = << >>
    /\ th_last = NEVER_LOGGED
    /\ th_clock = 0
    /\ th_resets = 0
    /\ th_calls = [t \in Threads |-> NoCall]
    /\ th_granted = << >>
    /\ cancelled = FALSE
    /\ udev_pc = "check"
    /\ udev_chan = 0
    /\ fwd_pc = "recv"
    /\ hotplugged = 0

InitWith(cfgs, attach, removes, b, faults) ==
    /\ InitPipeline(cfgs, attach, removes, b, faults)
    /\ FileIdle

\* one attach, handled under every configuration
Init == InitWith(Configs, 1, MaxRemove, MaxInProgress, MaxFaults)

\* the pipeline in an environment where every call succeeds and no device
\* is reported removed
NextNoFault ==
    \/ Adapter
    \/ OrchDeviceAdded
    \/ \E j \in JobIds : StartedNotify(j)
    \/ \E j \in JobIds : Producer(j)
    \/ \E j \in JobIds : Consumer(j)

Next ==
    \/ NextNoFault
    \/ AdapterMountFailed
    \/ AdapterRemoved
    \/ OrchDeviceRemoved
    \/ OrchCreateFailed
    \/ \E j \in JobIds : ConsumerFault(j)

Spec == Init /\ [][Next]_vars

\* one job whose engine emits enough in_progress statuses to fill the
\* channel, in the environment without faults
ChanConfigs == { c \in Configs : /\ c.transfer_engine = "native_copy"
                                  /\ c.verify_transfers
                                  /\ c.notifier }

InitChan == InitWith(ChanConfigs, 1, 0, MaxBurst, 0)

SpecChan == InitChan /\ [][NextNoFault]_vars


(***************************************************************************)
(* Persistence API driven directly (SpecDb): any sequence of create and    *)
(* update_status calls, the database clock, and reads.                     *)
(***************************************************************************)
dbFrame ==
    /\ UNCHANGED fileVars
    /\ UNCHANGED unitVars
    /\ UNCHANGED loopVars
    /\ UNCHANGED adapterVars
    /\ UNCHANGED << config, burst, faultsLeft >>
    /\ UNCHANGED << next_job, job_dev, progress_tracker, chan, rx_dropped, producer,
                    ipLeft, consumer, started_task, notified, sent, recvd, cleanup,
                    milestones, verify, destinations, job_dest, transfer_error >>

\* one call of create for a job id not used before, failing at fail_at
CreateCall(j, uuid, fail_at) ==
    /\ Len(job_status_log[j]) = 0
    /\ LET db == create_tx(Database(db_targets, db_jobs, job_status_log),
                            j, uuid, now, fail_at)
       IN  /\ db_targets' = db.targets
           /\ db_jobs' = db.jobs
           /\ job_status_log' = db.log
    /\ create_result' = [job |-> j, fail_at |-> fail_at]
    /\ UNCHANGED << now, readResult >>
    /\ dbFrame

DbCreate(j) == \E uuid \in Uuids : CreateCall(j, uuid, 0)

\* create returns Err: a statement or the commit failed
DbCreateFailed(j) ==
    \E uuid \in Uuids, fail_at \in CreateFailures \ {0} : CreateCall(j, uuid, fail_at)

DbUpdateStatus(j, status) ==
    /\ Len(job_status_log[j]) > 0
    /\ Len(job_status_log[j]) < MaxLog
    /\ job_status_log' = [job_status_log EXCEPT ![j] =
                             update_status(@, status, ConsumerColumns(status), now)]
    /\ UNCHANGED << now, readResult >>
    /\ UNCHANGED dbTables
    /\ dbFrame

\* CURRENT_TIMESTAMP moves on
Tick ==
    /\ now < MaxClock
    /\ now' = now + 1
    /\ UNCHANGED << job_status_log, readResult >>
    /\ UNCHANGED dbTables
    /\ dbFrame

\* get(job_id): the status column is one of the rows the subquery may return
DbGet(j) ==
    /\ Len(job_status_log[j]) > 0
    /\ \E status \in get(job_status_log[j]) :
          readResult' = [job |-> j, status |-> status,
                         newest |-> job_status_log[j][Len(job_status_log[j])].status]
    /\ UNCHANGED << job_status_log, now >>
    /\ UNCHANGED dbTables
    /\ dbFrame

NextDb ==
    \/ \E j \in JobIds : DbCreate(j)
    \/ \E j \in JobIds : DbCreateFailed(j)
    \/ \E j \in JobIds, status \in PersistedTags : DbUpdateStatus(j, status)
    \/ Tick
    \/ \E j \in JobIds : DbGet(j)

InitDb == InitWith(ChanConfigs, 0, 0, 0, 0)

SpecDb == InitDb /\ [][NextDb]_vars

(***************************************************************************)
(* Simulated adapter driven through its controller (SpecSim):              *)
(* adapters/simulated.rs.  The sink passed to start is the event channel   *)
(* `events`, whose receiver stays open and is drained by its owner.        *)
(***************************************************************************)
InjectAdd(uuid) == [kind |-> "InjectAdd", uuid |-> uuid]
InjectRemove(uuid) == [kind |-> "InjectRemove", uuid |-> uuid]

\* the bridge turning every command into DeviceAdded
SimulatedEvent_AlwaysAdd(cmd) == DeviceAdded(BlockDevice(cmd.uuid, "sim"))

\* the bridge task's match: the event of a command
SimulatedEvent(cmd) ==
    IF cmd.kind = "InjectAdd"
    THEN DeviceAdded(BlockDevice(cmd.uuid, "sim"))
    ELSE DeviceRemoved(cmd.uuid)

simFrame ==
    /\ UNCHANGED fileVars
    /\ UNCHANGED stopVars
    /\ UNCHANGED trackerVars
    /\ UNCHANGED throttleVars
    /\ UNCHANGED loopVars
    /\ UNCHANGED dbTables
    /\ UNCHANGED << attachLeft, removeLeft, unplugged, sysMount, mounted_by_us >>
    /\ UNCHANGED << config, burst, faultsLeft, readResult >>
    /\ UNCHANGED jobVars

\* Simulator::add_device / remove_device: an unbounded send, never blocking
SimCall(cmd) ==
    /\ Len(sim_calls) < MaxCalls
    /\ sim_calls' = Append(sim_calls, cmd)
    /\ sim_cmds' = Append(sim_cmds, cmd)
    /\ UNCHANGED << sim_started, sim_received, events >>
    /\ simFrame

SimAddDevice == \E u \in Uuids : SimCall(InjectAdd(u))

SimRemoveDevice == \E u \in Uuids : SimCall(InjectRemove(u))

\* SimulatedAdapter::start: take the receiver, spawn the bridge task
SimStart ==
    /\ ~sim_started
    /\ sim_started' = TRUE
    /\ UNCHANGED << sim_calls, sim_cmds, sim_received, events >>
    /\ simFrame

\* one turn of the bridge task: recv a command, send its event to the sink
\* (the send completes once the sink has room)
SimBridge ==
    /\ sim_started
    /\ Len(sim_cmds) > 0
    /\ Len(events) < EventChannelCapacity
    /\ Forward(SimulatedEvent(Head(sim_cmds)))
    /\ sim_cmds' = Tail(sim_cmds)
    /\ UNCHANGED << sim_calls, sim_started, sim_received >>
    /\ simFrame

\* the owner of the sink receives the next event
SimSinkRecv ==
    /\ Len(events) > 0
    /\ sim_received' = Append(sim_received, Head(events))
    /\ events' = Tail(events)
    /\ UNCHANGED << sim_calls, sim_cmds, sim_started >>
    /\ simFrame

NextSim ==
    \/ SimAddDevice
    \/ SimRemoveDevice
    \/ SimStart
    \/ SimBridge
    \/ SimSinkRecv

(***************************************************************************)
(* LogThrottle shared by several threads (SpecThrottle): logging.rs.  A    *)
(* should_log call is three steps: the clock read, the relaxed load, and   *)
(* the compare_exchange (or the return of false without it); other         *)
(* threads' steps and reset may come between them.                         *)
(***************************************************************************)
saturating_sub(a, b) == IF a >= b THEN a - b ELSE 0

\* should_log storing the new time without comparing
compare_exchange_Store(current, expected, new) == [ok |-> TRUE, value |-> new]

\* AtomicU64::compare_exchange(expected, new): the value is replaced only
\* when it still is `expected`
compare_exchange(current, expected, new) ==
    [ok |-> current = expected, value |-> IF current = expected THEN new ELSE current]

\* `last == NEVER_LOGGED || now_ms.saturating_sub(last) >= self.interval_ms`
should(now_ms, last) ==
    last = NEVER_LOGGED \/ saturating_sub(now_ms, last) >= ThrottleInterval

throttleFrame ==
    /\ UNCHANGED fileVars
    /\ UNCHANGED stopVars
    /\ UNCHANGED trackerVars
    /\ UNCHANGED simVars
    /\ UNCHANGED loopVars
    /\ UNCHANGED dbTables
    /\ UNCHANGED adapterVars
    /\ UNCHANGED << config, burst, faultsLeft, readResult >>
    /\ UNCHANGED jobVars

\* time passes
ThrottleTick ==
    /\ th_clock < MaxThrottleClock
    /\ th_clock' = th_clock + 1
    /\ UNCHANGED << th_last, th_resets, th_calls, th_granted >>
    /\ throttleFrame

\* `let now_ms = self.start.elapsed().as_millis() as u64`
ShouldLogClock(t) ==
    /\ th_calls[t].pc = "idle"
    /\ th_calls[t].calls < MaxThrottleCalls
    /\ th_calls' = [th_calls EXCEPT ![t].pc = "load", ![t].now_ms = th_clock,
                                    ![t].begun = th_resets]
    /\ UNCHANGED << th_last, th_clock, th_resets, th_granted >>
    /\ throttleFrame

\* `let last = self.last_log_ms.load(Ordering::Relaxed)`
ShouldLogLoad(t) ==
    /\ th_calls[t].pc = "load"
    /\ th_calls' = [th_calls EXCEPT ![t].pc = "decide", ![t].last = th_last]
    /\ UNCHANGED << th_last, th_clock, th_resets, th_granted >>
    /\ throttleFrame

\* should: compare_exchange(last, now_ms), the call returns its is_ok()
ShouldLogExchange(t) ==
    /\ th_calls[t].pc = "decide"
    /\ should(th_calls[t].now_ms, th_calls[t].last)
    /\ LET cas == compare_exchange(th_last, th_calls[t].last, th_calls[t].now_ms) IN
        /\ th_last' = cas.value
        /\ th_calls' = [th_calls EXCEPT ![t].pc = "idle", ![t].calls = @ + 1,
                                        ![t].result = IF cas.ok THEN "true" ELSE "false"]
        /\ th_granted' = IF cas.ok
                         THEN Append(th_granted, [thread |-> t, now_ms |-> th_calls[t].now_ms,
                                                  resets |-> th_resets])
                         ELSE th_granted
    /\ UNCHANGED << th_clock, th_resets >>
    /\ throttleFrame

\* not should: the call returns false
ShouldLogRefuse(t) ==
    /\ th_calls[t].pc = "decide"
    /\ ~should(th_calls[t].now_ms, th_calls[t].last)
    /\ th_calls' = [th_calls EXCEPT ![t].pc = "idle", ![t].calls = @ + 1,
                                    ![t].result = "false"]
    /\ UNCHANGED << th_last, th_clock, th_resets, th_granted >>
    /\ throttleFrame

\* reset: `self.last_log_ms.store(NEVER_LOGGED, Ordering::Relaxed)`
ThrottleReset ==
    /\ th_resets < MaxResets
    /\ th_last' = NEVER_LOGGED
    /\ th_resets' = th_resets + 1
    /\ UNCHANGED << th_clock, th_calls, th_granted >>
    /\ throttleFrame

NextThrottle ==
    \/ ThrottleTick
    \/ ThrottleReset
    \/ \E t \in Threads : ShouldLogClock(t)
    \/ \E t \in Threads : ShouldLogLoad(t)
    \/ \E t \in Threads : ShouldLogExchange(t)
    \/ \E t \in Threads : ShouldLogRefuse(t)

(***************************************************************************)
(* LinuxAdapter::start and stop task by task (SpecStop): the udev monitor  *)
(* thread (run_udev_monitor_blocking), the event processor task, the udev  *)
(* channel between them, and the orchestrator's event channel behind.      *)
(* Positions of the thread: check (loop top), poll, send (blocking_send),  *)
(* done.  Positions of the processor: recv, process, send, done.           *)
(***************************************************************************)
stopFrame ==
    /\ UNCHANGED fileVars
    /\ UNCHANGED trackerVars
    /\ UNCHANGED simVars
    /\ UNCHANGED throttleVars
    /\ UNCHANGED dbTables
    /\ UNCHANGED << attachLeft, removeLeft, unplugged, sysMount, mounted_by_us, orch >>
    /\ UNCHANGED << config, burst, faultsLeft, readResult >>
    /\ UNCHANGED jobVars

\* tx.blocking_send(event_data): Err when the receiver is gone, Ok when the
\* channel has room, and otherwise the thread waits; the cancel token is
\* not looked at
blocking_send(n, rx_open) ==
    IF ~rx_open THEN "err" ELSE IF n < UdevChannelCapacity THEN "ok" ELSE "wait"

\* stop: self.cancel_token.cancel()
LinuxStop ==
    /\ ~cancelled
    /\ cancelled' = TRUE
    /\ UNCHANGED << udev_pc, udev_chan, fwd_pc, hotplugged, events, tx_open >>
    /\ stopFrame

\* loop top: `if cancel_token.is_cancelled() { break }`, else poll
UdevCheck ==
    /\ udev_pc = "check"
    /\ udev_pc' = IF cancelled THEN "done" ELSE "poll"
    /\ UNCHANGED << cancelled, udev_chan, fwd_pc, hotplugged, events, tx_open >>
    /\ stopFrame

\* poll returns Ok(0) after 500 ms (or EINTR): continue
UdevPollTimeout ==
    /\ udev_pc = "poll"
    /\ udev_pc' = "check"
    /\ UNCHANGED << cancelled, udev_chan, fwd_pc, hotplugged, events, tx_open >>
    /\ stopFrame

\* poll returns Ok(_): an event is read; extract_event_data gives None
\* (continue) or Some (blocking_send)
UdevPollEvent ==
    /\ udev_pc = "poll"
    /\ hotplugged < MaxHotplug
    /\ hotplugged' = hotplugged + 1
    /\ udev_pc' \in {"check", "send"}
    /\ UNCHANGED << cancelled, udev_chan, fwd_pc, events, tx_open >>
    /\ stopFrame

\* tx.blocking_send(event_data) returns: Err breaks, Ok continues
UdevSend ==
    /\ udev_pc = "send"
    /\ LET r == blocking_send(udev_chan, fwd_pc # "done") IN
        /\ r # "wait"
        /\ udev_pc' = IF r = "ok" THEN "check" ELSE "done"
        /\ udev_chan' = IF r = "ok" THEN udev_chan + 1 ELSE udev_chan
    /\ UNCHANGED << cancelled, fwd_pc, hotplugged, events, tx_open >>
    /\ stopFrame

UdevThread == UdevCheck \/ UdevPollTimeout \/ UdevPollEvent \/ UdevSend

\* udev_rx.recv() yields an item: `if cancel_token.is_cancelled() { break }`,
\* and the task ends, dropping udev_rx and event_sender
FwdRecv ==
    /\ fwd_pc = "recv"
    /\ udev_chan > 0
    /\ fwd_pc' = IF cancelled THEN "done" ELSE "process"
    /\ udev_chan' = IF cancelled THEN 0 ELSE udev_chan - 1
    /\ tx_open' = IF cancelled THEN FALSE ELSE tx_open
    /\ UNCHANGED << cancelled, udev_pc, hotplugged, events >>
    /\ stopFrame

\* udev_rx.recv() yields None: the thread has dropped udev_tx and the
\* channel is empty
FwdRecvClosed ==
    /\ fwd_pc = "recv"
    /\ udev_chan = 0
    /\ udev_pc = "done"
    /\ fwd_pc' = "done"
    /\ tx_open' = FALSE
    /\ UNCHANGED << cancelled, udev_pc, udev_chan, hotplugged, events >>
    /\ stopFrame

\* process_event_data returns None (continue) or Some(hw_event)
FwdProcess ==
    /\ fwd_pc = "process"
    /\ fwd_pc' \in {"recv", "send"}
    /\ UNCHANGED << cancelled, udev_pc, udev_chan, hotplugged, events, tx_open >>
    /\ stopFrame

\* event_sender.send(hw_event).await: waits for room.  The orchestrator
\* keeps the receiver for as long as this sender lives, so the Err arm
\* (`break`) is not taken.
FwdSend ==
    /\ fwd_pc = "send"
    /\ Len(events) < EventChannelCapacity
    /\ Forward(DeviceRemoved("u1"))
    /\ fwd_pc' = "recv"
    /\ UNCHANGED << cancelled, udev_pc, udev_chan, hotplugged, tx_open >>
    /\ stopFrame

Forwarder == FwdRecv \/ FwdRecvClosed \/ FwdProcess \/ FwdSend

NextStop ==
    \/ LinuxStop
    \/ UdevCheck
    \/ UdevPollTimeout
    \/ UdevPollEvent
    \/ UdevSend
    \/ FwdRecv
    \/ FwdRecvClosed
    \/ FwdProcess
    \/ FwdSend
    \/ OrchDeviceRemoved
    \/ OrchReturn

(***************************************************************************)
(* Progress registry driven directly (SpecTracker): core/progress.rs.  The *)
(* map is progress_tracker, None standing for "no entry".                  *)
(***************************************************************************)
\* update: map.insert(job_id, status)
TrackerUpdate(map, j, status) == [map EXCEPT ![j] = status]

\* remove emptying the whole map
TrackerRemove_Clear(map, j) == [k \in DOMAIN map |-> None]

\* remove: map.remove(job_id)
TrackerRemove(map, j) == [map EXCEPT ![j] = None]

\* get: map.get(job_id).cloned()
TrackerGet(map, j) == map[j]

\* the keys of the HashMap
TrackerKeys(map) == { k \in DOMAIN map : map[k] # None }

\* get_all: map.clone()
get_all(map) == [k \in TrackerKeys(map) |-> map[k]]

\* active_count: map.len()
active_count(map) == Cardinality(TrackerKeys(map))

\* statuses written in the directly driven runs
TrackerStatuses ==
    { TransferStatus("ready", 0), TransferStatus("in_progress", 1),
      TransferStatus("copy_complete", 0) }

trackerFrame ==
    /\ UNCHANGED fileVars
    /\ UNCHANGED stopVars
    /\ UNCHANGED simVars
    /\ UNCHANGED throttleVars
    /\ UNCHANGED loopVars
    /\ UNCHANGED dbTables
    /\ UNCHANGED adapterVars
    /\ UNCHANGED << config, burst, faultsLeft, readResult >>
    /\ UNCHANGED << next_job, job_dev, job_status_log, now, chan, rx_dropped, producer,
                    ipLeft, consumer, started_task, notified, sent, recvd, cleanup,
                    milestones, verify, destinations, job_dest, transfer_error >>

TrackerDoUpdate(j, status) ==
    /\ Len(tracker_ops) < MaxOps
    /\ progress_tracker' = TrackerUpdate(progress_tracker, j, status)
    /\ tracker_ops' = Append(tracker_ops, [op |-> "update", job |-> j, status |-> status])
    /\ UNCHANGED << tracker_read, tracker_snapshot >>
    /\ trackerFrame

TrackerDoRemove(j) ==
    /\ Len(tracker_ops) < MaxOps
    /\ progress_tracker' = TrackerRemove(progress_tracker, j)
    /\ tracker_ops' = Append(tracker_ops, [op |-> "remove", job |-> j, status |-> None])
    /\ UNCHANGED << tracker_read, tracker_snapshot >>
    /\ trackerFrame

TrackerDoGet(j) ==
    /\ tracker_read' = [kind |-> "get", job |-> j, value |-> TrackerGet(progress_tracker, j),
                        count |-> 0, at |-> Len(tracker_ops)]
    /\ UNCHANGED << progress_tracker, tracker_ops, tracker_snapshot >>
    /\ trackerFrame

TrackerDoCount ==
    /\ tracker_read' = [kind |-> "active_count", job |-> 0, value |-> None,
                        count |-> active_count(progress_tracker), at |-> Len(tracker_ops)]
    /\ UNCHANGED << progress_tracker, tracker_ops, tracker_snapshot >>
    /\ trackerFrame

TrackerDoGetAll ==
    /\ tracker_snapshot' = [taken |-> TRUE, map |-> get_all(progress_tracker),
                            at |-> Len(tracker_ops)]
    /\ UNCHANGED << progress_tracker, tracker_ops, tracker_read >>
    /\ trackerFrame

NextTracker ==
    \/ \E j \in JobIds, status \in TrackerStatuses : TrackerDoUpdate(j, status)
    \/ \E j \in JobIds : TrackerDoRemove(j)
    \/ \E j \in JobIds : TrackerDoGet(j)
    \/ TrackerDoCount
    \/ TrackerDoGetAll

InitTracker == InitWith(ChanConfigs, 0, 0, 0, 0)

SpecTracker == InitTracker /\ [][NextTracker]_vars

InitThrottle == InitTracker

SpecThrottle == InitThrottle /\ [][NextThrottle]_vars

InitStop == InitTracker

\* the thread, the processor task and the orchestrator's loop are scheduled
FairnessStop == WF_vars(UdevThread) /\ WF_vars(Forwarder) /\ WF_vars(OrchDeviceRemoved)

SpecStop == InitStop /\ [][NextStop]_vars /\ FairnessStop

(***************************************************************************)
(* The pipeline under every configuration, simulation mode included, in    *)
(* the environment without faults (SpecGate).                              *)
(***************************************************************************)
SimConfigs == [transfer_engine : TransferEngineTypes,
               verify_transfers : BOOLEAN,
               simulation : {TRUE},
               notifier : BOOLEAN]

InitGate == InitWith(Configs \cup SimConfigs, 1, 0, MaxInProgress, 0)

NextGate ==
    \/ NextNoFault
    \/ SimulatedAdapter
    \/ \E j \in JobIds : SimulatedCleanup(j)

SpecGate == InitGate /\ [][NextGate]_vars

\* the simulated adapter on its own, in simulation mode
InitSim == InitWith({ c \in SimConfigs : /\ c.transfer_engine = "simulated"
                                         /\ ~c.verify_transfers
                                         /\ ~c.notifier }, 0, 0, 0, 0)

\* start is called, the bridge task and the owner of the sink are scheduled
FairnessSim == WF_vars(SimStart) /\ WF_vars(SimBridge) /\ WF_vars(SimSinkRecv)

SpecSim == InitSim /\ [][NextSim]_vars /\ FairnessSim

(***************************************************************************)
(* One native-copy transfer at file level (transfer_engine/native_copy.rs) *)
(* followed by the verifier (SpecCopy).  Sizes are in bytes.               *)
(***************************************************************************)
\* const PROGRESS_UPDATE_INTERVAL: u64 = 1024 * 1024
PROGRESS_UPDATE_INTERVAL == 1048576
\* largest u8: `as u8` on a float saturates
U8Max == 255

\* relative paths of the source directory the model provides
Paths == {"a", "d/b", "d/c"}
\* file sizes the model provides
FileSizes == {0, 524288, 1048576}

\* A directory entry: kind as symlink_metadata reports it, size as metadata
\* reports it at scan time, len and data the bytes a later read yields (a
\* file may be written to between the scan and its copy).
Absent == [kind |-> "absent", size |-> 0, len |-> 0, data |-> 0]
Symlink == [kind |-> "symlink", size |-> 0, len |-> 0, data |-> 0]
RegularFiles == [kind : {"file"}, size : FileSizes, len : FileSizes, data : {1}]
SourceTrees == [Paths -> {Absent, Symlink} \cup RegularFiles]

NoFile == [present |-> FALSE, len |-> 0, data |-> 0]

pipelineVars == << config, attachLeft, removeLeft, unplugged, burst, faultsLeft, sysMount,
                   mounted_by_us, events, tx_open, orch, next_job, job_dev, job_status_log, now,
                   progress_tracker, chan, rx_dropped, producer, ipLeft, consumer,
                   started_task, notified, sent, recvd, cleanup, milestones, verify,
                   destinations, job_dest, transfer_error, readResult,
                   db_targets, db_jobs, create_result, unitVars >>

RECURSIVE SeqSum(_)
SeqSum(q) == IF Len(q) = 0 THEN 0 ELSE Head(q) + SeqSum(Tail(q))

\* every order in which read_dir may yield the members of S
Orders(S) ==
    { q \in [1 .. Cardinality(S) -> S] : \A i, k \in 1 .. Cardinality(S) : i # k => q[i] # q[k] }

FileInfo(path, size) == [path |-> path, size |-> size]

\* scan_directory_recursive with metadata() in place of symlink_metadata():
\* a link to a file counts as a file
IsRegular_FollowSymlinks(tree, p) == tree[p].kind \in {"file", "symlink"}

\* scan_directory_recursive: symlink_metadata().is_file()
IsRegular(tree, p) == tree[p].kind = "file"

\* scan_directory: the regular files in read_dir order, and their total size
scan_directory(tree, order) ==
    LET files == [i \in 1 .. Len(order) |-> FileInfo(order[i], tree[order[i]].size)]
    IN  [files |-> files,
         total_bytes |-> SeqSum([i \in 1 .. Len(files) |-> files[i].size])]

\* float-to-u8 cast
AsU8(x) == IF x > U8Max THEN U8Max ELSE IF x < 0 THEN 0 ELSE x

\* native_copy.rs:390-394
Percentage(bytes_copied, total_bytes) ==
    IF total_bytes > 0 THEN AsU8((bytes_copied * 100) \div total_bytes) ELSE 100

InProgress(total_bytes, bytes_copied, percentage) ==
    [total_bytes |-> total_bytes, bytes_copied |-> bytes_copied, percentage |-> percentage]

\* BLAKE3 digest of the bytes read: a function of the content with no
\* collision among the contents of the model
Blake3(data, len) == 4 * len + data

FileHash(relative_path, digest, size) ==
    [relative_path |-> relative_path, hash |-> digest, size |-> size]

(***************************************************************************)
(* I/O errors of copy_single_file and their classification.                *)
(***************************************************************************)
\* errno values (libc, Linux)
EPERM == 1
ENOENT == 2
EIO == 5
ENXIO == 6
EACCES == 13
ENODEV == 19
ENOSPC == 28
EPIPE == 32
ECONNABORTED == 103
ECONNRESET == 104
ENOTCONN == 107
ENOMEDIUM == 123
EMEDIUMTYPE == 124
\* raw_os_error() of an error that was not built from an errno
NoErrno == 0

Errnos == {EPERM, ENOENT, EIO, ENXIO, EACCES, ENODEV, ENOSPC, EPIPE, ECONNABORTED,
           ECONNRESET, ENOTCONN, ENOMEDIUM, EMEDIUMTYPE}

ErrorKinds == {"NotFound", "PermissionDenied", "BrokenPipe", "ConnectionReset",
               "ConnectionAborted", "NotConnected", "StorageFull", "UnexpectedEof",
               "Other", "Uncategorized"}

\* error.kind() of an error built from an errno (std's errno table)
KindOfErrno(errno) ==
    CASE errno = ENOENT -> "NotFound"
      [] errno \in {EPERM, EACCES} -> "PermissionDenied"
      [] errno = EPIPE -> "BrokenPipe"
      [] errno = ECONNRESET -> "ConnectionReset"
      [] errno = ECONNABORTED -> "ConnectionAborted"
      [] errno = ENOTCONN -> "NotConnected"
      [] errno = ENOSPC -> "StorageFull"
      [] OTHER -> "Uncategorized"

\* io::Error::from_raw_os_error(errno) and io::Error::new(kind, ..)
NoError == [kind |-> "none", errno |-> NoErrno]
OsError(errno) == [kind |-> KindOfErrno(errno), errno |-> errno]
CustomError(kind) == [kind |-> kind, errno |-> NoErrno]

IoErrors == { OsError(n) : n \in Errnos } \cup { CustomError(k) : k \in ErrorKinds }

\* is_device_removed_error looking at the error kind only
is_device_removed_error_KindOnly(error) ==
    error.kind \in {"NotFound", "BrokenPipe", "ConnectionReset", "ConnectionAborted",
                    "NotConnected"}

\* is_device_removed_error (native_copy.rs:585-610)
is_device_removed_error(error) ==
    CASE error.kind = "NotFound" -> TRUE
      [] error.kind = "PermissionDenied" -> FALSE
      [] error.kind = "BrokenPipe" -> TRUE
      [] error.kind = "ConnectionReset" -> TRUE
      [] error.kind = "ConnectionAborted" -> TRUE
      [] error.kind = "NotConnected" -> TRUE
      [] OTHER -> IF error.errno # NoErrno
                  THEN error.errno \in {EIO, ENODEV, ENXIO, ENOMEDIUM, EMEDIUMTYPE}
                  ELSE FALSE

\* errors of one transfer listed in its error message
CopyErrorsShown == 10

CopyError(file, error) == [file |-> file, error |-> error]

\* the summary built after the loop: "Transfer completed with <count>
\* error(s)", the first 10 of them, "... and <more> more errors"
CopyErrorSummary(errors) ==
    LET shown == IF Len(errors) > CopyErrorsShown THEN CopyErrorsShown ELSE Len(errors)
    IN  [returned |-> "errors", at_file |-> "", count |-> Len(errors),
         listed |-> SubSeq(errors, 1, shown), more |-> Len(errors) - shown]

\* the Err arm of the loop without the early return: a device-removed error
\* is recorded like any other
OnCopyError_NoAbort(is_device_removed) == "record"

\* the Err arm of the loop (native_copy.rs:404-423)
OnCopyError(is_device_removed) == IF is_device_removed THEN "abort" ELSE "record"

NativeScan ==
    /\ native.pc = "scan"
    /\ \E order \in Orders({ p \in Paths : IsRegular(source_tree, p) }) :
          scan_result' = scan_directory(source_tree, order)
    /\ native' = [native EXCEPT !.pc = "copy", !.i = 1]
    /\ UNCHANGED << source_tree, dest_tree, touched, emitted, file_hashes, verified >>
    /\ UNCHANGED pipelineVars

\* one iteration of the loop of copy_files_with_progress: copy_single_file
\* succeeds, the hash of the bytes written is recorded, progress is emitted
NativeCopyFile ==
    /\ native.pc = "copy"
    /\ native.i <= Len(scan_result.files)
    /\ LET f == scan_result.files[native.i]
           e == source_tree[f.path]
           bytes_copied == native.bytes_copied + e.len
           emit == \/ bytes_copied - native.last_progress_update >= PROGRESS_UPDATE_INTERVAL
                   \/ bytes_copied = scan_result.total_bytes
       IN  /\ dest_tree' = [dest_tree EXCEPT ![f.path] =
                               [present |-> TRUE, len |-> e.len, data |-> e.data]]
           /\ file_hashes' = Append(file_hashes,
                                    FileHash(f.path, Blake3(e.data, e.len), e.len))
           /\ emitted' = IF emit
                         THEN Append(emitted,
                                     InProgress(scan_result.total_bytes, bytes_copied,
                                                Percentage(bytes_copied,
                                                           scan_result.total_bytes)))
                         ELSE emitted
           /\ native' = [native EXCEPT !.i = @ + 1,
                                       !.attempts = Append(@, [file |-> f.path,
                                                               error |-> NoError,
                                                               is_device_removed |-> FALSE]),
                                       !.bytes_copied = bytes_copied,
                                       !.last_progress_update =
                                           IF emit THEN bytes_copied ELSE @]
    /\ UNCHANGED << source_tree, touched, scan_result, verified >>
    /\ UNCHANGED pipelineVars

\* one iteration of the loop in which copy_single_file returns Err: the
\* error is classified where it arose; the destination file is not there
\* yet or was created and is incomplete
NativeCopyFailed(errs) ==
    /\ native.pc = "copy"
    /\ native.i <= Len(scan_result.files)
    /\ \E error \in errs :
        LET f == scan_result.files[native.i]
            removed == is_device_removed_error(error)
            attempt == [file |-> f.path, error |-> error, is_device_removed |-> removed]
        IN  /\ \E after \in {dest_tree[f.path], [present |-> TRUE, len |-> 0, data |-> 0]} :
                  dest_tree' = [dest_tree EXCEPT ![f.path] = after]
            /\ IF OnCopyError(removed) = "abort"
               THEN native' = [native EXCEPT
                                 !.pc = "failed",
                                 !.attempts = Append(@, attempt),
                                 !.result = [NoCopyResult EXCEPT !.returned = "device_removed",
                                                                 !.at_file = f.path]]
               ELSE native' = [native EXCEPT
                                 !.i = @ + 1,
                                 !.attempts = Append(@, attempt),
                                 !.errors = Append(@, CopyError(f.path, error))]
    /\ UNCHANGED << source_tree, touched, scan_result, emitted, file_hashes, verified >>
    /\ UNCHANGED pipelineVars

\* the loop is over with errors recorded: Err(summary)
NativeReturnErrors ==
    /\ native.pc = "copy"
    /\ native.i > Len(scan_result.files)
    /\ Len(native.errors) > 0
    /\ native' = [native EXCEPT !.pc = "failed", !.result = CopyErrorSummary(native.errors)]
    /\ UNCHANGED << source_tree, dest_tree, touched, scan_result, emitted,
                    file_hashes, verified >>
    /\ UNCHANGED pipelineVars

\* the loop is over without errors: Ok(TransferResult)
NativeReturnOk ==
    /\ native.pc = "copy"
    /\ native.i > Len(scan_result.files)
    /\ Len(native.errors) = 0
    /\ native' = [native EXCEPT !.pc = "returned", !.result.returned = "ok"]
    /\ UNCHANGED << source_tree, dest_tree, touched, scan_result, emitted,
                    file_hashes, verified >>
    /\ UNCHANGED pipelineVars

\* someone else deletes or rewrites a file of the destination after the copy
Touch(p) ==
    /\ native.pc = "returned"
    /\ ~touched
    /\ dest_tree[p].present
    /\ \E after \in {NoFile, [dest_tree[p] EXCEPT !.data = 2]} :
          dest_tree' = [dest_tree EXCEPT ![p] = after]
    /\ touched' = TRUE
    /\ UNCHANGED << source_tree, scan_result, native, emitted, file_hashes, verified >>
    /\ UNCHANGED pipelineVars

(***************************************************************************)
(* Verifier: verify_from_hashes(job_id, destination, hashes).              *)
(***************************************************************************)
\* first mismatches shown in the error message
MismatchesShown == 10

FileMismatch(relative_path, reason) == [relative_path |-> relative_path, reason |-> reason]

\* "ok", or the reason the recorded file h fails
CheckFile(dest, h) ==
    IF ~dest[h.relative_path].present THEN "missing in destination"
    ELSE IF Blake3(dest[h.relative_path].data, dest[h.relative_path].len) # h.hash
         THEN "hash mismatch"
    ELSE "ok"

\* the loop over the recorded hashes: every file is looked at, a mismatch is
\* recorded and the loop goes on
RECURSIVE Mismatches(_, _)
Mismatches(dest, hashes) ==
    IF Len(hashes) = 0 THEN << >>
    ELSE LET r == CheckFile(dest, Head(hashes))
         IN  (IF r = "ok" THEN << >> ELSE << FileMismatch(Head(hashes).relative_path, r) >>)
             \o Mismatches(dest, Tail(hashes))

RECURSIVE BytesVerified(_, _)
BytesVerified(dest, hashes) ==
    IF Len(hashes) = 0 THEN 0
    ELSE (IF CheckFile(dest, Head(hashes)) = "ok" THEN Head(hashes).size ELSE 0)
         + BytesVerified(dest, Tail(hashes))

\* format_mismatch_error with the number of entries shown as the count
format_mismatch_error_CountsShown(mismatches) ==
    LET shown == IF Len(mismatches) > MismatchesShown THEN MismatchesShown
                 ELSE Len(mismatches)
    IN  [count |-> shown,
         listed |-> SubSeq(mismatches, 1, shown),
         more |-> Len(mismatches) - shown]

\* format_mismatch_error: "<count> file(s) did not match", the first 10
\* entries, "... and <more> more"
format_mismatch_error(mismatches) ==
    LET shown == IF Len(mismatches) > MismatchesShown THEN MismatchesShown
                 ELSE Len(mismatches)
    IN  [count |-> Len(mismatches),
         listed |-> SubSeq(mismatches, 1, shown),
         more |-> Len(mismatches) - shown]

verify_from_hashes(dest, hashes) ==
    LET mismatches == Mismatches(dest, hashes)
        msg == format_mismatch_error(mismatches)
    IN  IF Len(mismatches) > 0
        THEN [returned |-> "err", files_verified |-> 0, bytes_verified |-> 0,
              count |-> msg.count, listed |-> msg.listed, more |-> msg.more]
        ELSE [returned |-> "ok", files_verified |-> Len(hashes),
              bytes_verified |-> BytesVerified(dest, hashes),
              count |-> 0, listed |-> << >>, more |-> 0]

VerifyFromHashes ==
    /\ native.pc = "returned"
    /\ verified' = verify_from_hashes(dest_tree, file_hashes)
    /\ native' = [native EXCEPT !.pc = "verified"]
    /\ UNCHANGED << source_tree, dest_tree, touched, scan_result, emitted, file_hashes >>
    /\ UNCHANGED pipelineVars

InitCopy ==
    /\ InitPipeline(ChanConfigs, 0, 0, 0, 0)
    /\ source_tree \in SourceTrees
    /\ dest_tree = [p \in Paths |-> NoFile]
    /\ touched = FALSE
    /\ scan_result = NoScan
    /\ native = [NoCopy EXCEPT !.pc = "scan"]
    /\ emitted = << >>
    /\ file_hashes = << >>
    /\ verified = NoVerify

NextCopy ==
    \/ NativeScan
    \/ NativeCopyFile
    \/ NativeReturnOk
    \/ \E p \in Paths : Touch(p)
    \/ VerifyFromHashes

SpecCopy == InitCopy /\ [][NextCopy]_vars

\* a transfer of up to three files of one size in which any copy may fail
\* with any of the errors (SpecCopyErr)
ErrTrees == [Paths -> {Absent, [kind |-> "file", size |-> 524288, len |-> 524288, data |-> 1]}]

InitCopyErr ==
    /\ InitPipeline(ChanConfigs, 0, 0, 0, 0)
    /\ source_tree \in ErrTrees
    /\ dest_tree = [p \in Paths |-> NoFile]
    /\ touched = FALSE
    /\ scan_result = NoScan
    /\ native = [NoCopy EXCEPT !.pc = "scan"]
    /\ emitted = << >>
    /\ file_hashes = << >>
    /\ verified = NoVerify

NextCopyErr ==
    \/ NativeScan
    \/ NativeCopyFile
    \/ NativeCopyFailed(IoErrors)
    \/ NativeReturnErrors
    \/ NativeReturnOk

SpecCopyErr == InitCopyErr /\ [][NextCopyErr]_vars

(***************************************************************************)
(* The verifier applied to any recorded hashes and any state of the        *)
(* destination (SpecVerify): each recorded file is there unchanged, there  *)
(* with other content, or missing.                                         *)
(***************************************************************************)
RecordedPaths == << "f01", "f02", "f03", "f04", "f05", "f06", "f07", "f08", "f09",
                    "f10", "f11", "f12" >>

\* the hash recorded for the i-th file: content 1, a size depending on i
Recorded(i) == FileHash(RecordedPaths[i], Blake3(1, 4096 * (i % 3)), 4096 * (i % 3))

DestFile(i, state) ==
    CASE state = "same" -> [present |-> TRUE, len |-> 4096 * (i % 3), data |-> 1]
      [] state = "changed" -> [present |-> TRUE, len |-> 4096 * (i % 3), data |-> 2]
      [] state = "missing" -> NoFile

\* what may have happened to the i-th file: odd ones may be gone, even ones
\* may have been rewritten
DestStates(i) == IF i % 2 = 1 THEN {"same", "missing"} ELSE {"same", "changed"}

InitVerify ==
    /\ InitPipeline(ChanConfigs, 0, 0, 0, 0)
    /\ source_tree = NoTree
    /\ touched = TRUE
    /\ scan_result = NoScan
    /\ native = [NoCopy EXCEPT !.pc = "returned"]
    /\ emitted = << >>
    /\ verified = NoVerify
    /\ \E n \in 0 .. MaxRecorded :
          /\ file_hashes = [i \in 1 .. n |-> Recorded(i)]
          /\ \E states \in { f \in [1 .. n -> {"same", "changed", "missing"}] :
                                 \A i \in 1 .. n : f[i] \in DestStates(i) } :
                dest_tree = [p \in { RecordedPaths[i] : i \in 1 .. n } |->
                               LET i == CHOOSE k \in 1 .. n : RecordedPaths[k] = p
                               IN  DestFile(i, states[i])]

SpecVerify == InitVerify /\ [][VerifyFromHashes]_vars

\* the copy loop over up to MaxScanned scanned files, each copy succeeding,
\* failing with a permission error or failing with an I/O error of the
\* device (SpecCopyMany)
ScannedSize == 4096

ManyErrors == {CustomError("PermissionDenied"), OsError(EIO)}

InitCopyMany ==
    /\ InitPipeline(ChanConfigs, 0, 0, 0, 0)
    /\ touched = FALSE
    /\ native = [NoCopy EXCEPT !.pc = "copy", !.i = 1]
    /\ emitted = << >>
    /\ file_hashes = << >>
    /\ verified = NoVerify
    /\ \E n \in 0 .. MaxScanned :
          LET paths == { RecordedPaths[i] : i \in 1 .. n } IN
          /\ source_tree = [p \in paths |->
                               [kind |-> "file", size |-> ScannedSize, len |-> ScannedSize,
                                data |-> 1]]
          /\ dest_tree = [p \in paths |-> NoFile]
          /\ scan_result = [files |-> [i \in 1 .. n |-> FileInfo(RecordedPaths[i], ScannedSize)],
                            total_bytes |-> n * ScannedSize]

NextCopyMany ==
    \/ NativeCopyFile
    \/ NativeCopyFailed(ManyErrors)
    \/ NativeReturnErrors
    \/ NativeReturnOk

SpecCopyMany == InitCopyMany /\ [][NextCopyMany]_vars

(***************************************************************************)
(* Scheduling.  The tokio runtime runs every spawned task that can take a  *)
(* step: the event loop, each producer task (the engine call returns) and  *)
(* each consumer task.  The return of notifier.notify is not a step of the *)
(* scheduler: the HTTP call is awaited without a timeout                   *)
(* (notifications/slack.rs), so nothing makes it return.                   *)
(***************************************************************************)
EventLoop == OrchDeviceAdded \/ OrchCreateFailed \/ OrchDeviceRemoved

\* the consumer's steps other than the return of an awaited notification
ConsumerLocal(j) ==
    \/ ConsumerRecv(j)
    \/ ConsumerPersist(j)
    \/ ConsumerPersistFailed(j)
    \/ CleanupSyncFailed(j)
    \/ CleanupNotOurs(j)
    \/ CleanupShouldUnmount(j)
    \/ CleanupUnmount(j)
    \/ CleanupUnmountFailed(j)
    \/ CleanupUntrack(j)
    \/ ConsumerRemove(j)

Fairness ==
    /\ WF_vars(EventLoop)
    /\ \A j \in JobIds : WF_vars(Producer(j)) /\ WF_vars(ConsumerLocal(j))

SpecLive == Init /\ [][Next]_vars /\ Fairness

\* fair scheduling in the environment without faults
InitNoFault == InitWith(Configs, 1, 0, MaxInProgress, 0)

SpecLiveNoFault == InitNoFault /\ [][NextNoFault]_vars /\ Fairness

\* two attaches, so that two jobs run at the same time: native copy with
\* verification, no notifier configured, no faults, fair scheduling
TwoConfigs == { c \in Configs : /\ c.transfer_engine = "native_copy"
                                 /\ c.verify_transfers
                                 /\ ~c.notifier }

InitTwo == InitWith(TwoConfigs, MaxJobs, 0, MaxInProgress, 0)

\* the consumer's steps when ctx.notifier is None
ConsumerNoNotifier(j) ==
    \/ ConsumerRecv(j)
    \/ ConsumerPersist(j)
    \/ CleanupNotOurs(j)
    \/ CleanupShouldUnmount(j)
    \/ CleanupUnmount(j)
    \/ CleanupUntrack(j)
    \/ ConsumerRemove(j)

NextTwo ==
    \/ Adapter
    \/ OrchDeviceAdded
    \/ \E j \in JobIds : Producer(j)
    \/ \E j \in JobIds : ConsumerNoNotifier(j)

SpecTwo == InitTwo /\ [][NextTwo]_vars /\ Fairness

\* two attaches and a removal, where the only call that can fail is the
\* adapter's mount_device
InitMount == InitWith(TwoConfigs, MaxJobs, MaxRemove, MaxInProgress, MaxFaults)

NextMount ==
    \/ NextTwo
    \/ AdapterMountFailed
    \/ AdapterRemoved
    \/ OrchDeviceRemoved

SpecMount == InitMount /\ [][NextMount]_vars

\* two attaches with a notifier configured, where the only call that can
\* fail is db::jobs::create
InitCreate == InitWith(ChanConfigs, MaxJobs, 0, MaxInProgress, MaxFaults)

NextCreate ==
    \/ NextNoFault
    \/ OrchCreateFailed

SpecCreate == InitCreate /\ [][NextCreate]_vars

\* one job with a notifier configured, where the only call that can fail is
\* notifier.notify
NotifyConfigs == { c \in Configs : c.notifier }

InitNotify == InitWith(NotifyConfigs, 1, 0, MaxInProgress, MaxNotifyErrors)

NextNotify ==
    \/ NextNoFault
    \/ \E j \in JobIds : StartedNotifyFailed(j)
    \/ \E j \in JobIds : ConsumerNotifyFailed(j)

SpecNotify == InitNotify /\ [][NextNotify]_vars

\* the daemon over two attaches: jobs that fail, creates and cleanups that
\* fail, and the adapter's processor task ending at any moment
InitDaemon == InitWith(TwoConfigs, MaxJobs, 0, MaxInProgress, MaxFaults)

NextDaemon ==
    \/ NextTwo
    \/ OrchCreateFailed
    \/ \E j \in JobIds : ConsumerFault(j)
    \/ AdapterStop
    \/ OrchReturn

SpecDaemon == InitDaemon /\ [][NextDaemon]_vars

(***************************************************************************)
(* Helpers for the properties.                                             *)
(***************************************************************************)
IsPrefix(a, b) == Len(a) <= Len(b) /\ \A i \in 1 .. Len(a) : a[i] = b[i]

\* a is b with some elements left out
RECURSIVE IsSubseq(_, _)
IsSubseq(a, b) ==
    IF Len(a) = 0 THEN TRUE
    ELSE IF Len(b) = 0 THEN FALSE
    ELSE IF Head(a) = Head(b) THEN IsSubseq(Tail(a), Tail(b))
    ELSE IsSubseq(a, Tail(b))

Tags(statuses) == [i \in 1 .. Len(statuses) |-> statuses[i].tag]

IsPersistedTag(tag) == tag \in PersistedTags

\* the statuses of the entries the consumer appended (all but create's)
AppendedStatuses(j) ==
    [i \in 1 .. (Len(job_status_log[j]) - 1) |-> job_status_log[j][i + 1].status]

IsConsumerEvent(kind) == kind # "started"

\* the notifications the consumer itself sent
ConsumerNotifs(j) == SelectSeq(notified[j], IsConsumerEvent)

Created(j) == consumer[j].pc # "idle"

HasTerminalEntry(j) == TerminalEntries(job_status_log[j]) # {}

Count(seq, x) == Cardinality({ i \in 1 .. Len(seq) : seq[i] = x })

(***************************************************************************)
(* C1.  A job's status log holds at most one complete/failed entry, also   *)
(* when the engine and the producer task both send failed; once that entry *)
(* is there the consumer appends nothing, receives nothing, makes no       *)
(* registry update (only the removal), and sends no notification other     *)
(* than the one of that terminal status; once it has stopped nothing of    *)
(* the job changes.                                                        *)
(***************************************************************************)
C1_State ==
    \A j \in JobIds :
        /\ Cardinality(TerminalEntries(job_status_log[j])) <= 1
        /\ Len(ConsumerNotifs(j)) <= 1

C1_Step ==
    \A j \in JobIds :
        /\ HasTerminalEntry(j) =>
              /\ job_status_log'[j] = job_status_log[j]
              /\ recvd'[j] = recvd[j]
              /\ progress_tracker'[j] \in {progress_tracker[j], None}
              /\ Len(ConsumerNotifs(j)) = 1 => ConsumerNotifs(j)' = ConsumerNotifs(j)
        /\ consumer[j].pc = "done" =>
              /\ job_status_log'[j] = job_status_log[j]
              /\ progress_tracker'[j] = progress_tracker[j]
              /\ ConsumerNotifs(j)' = ConsumerNotifs(j)
              /\ consumer'[j] = consumer[j]

\* C1: at most one terminal entry, and nothing more for the job after it
C1_AtMostOneTerminal == [] C1_State /\ [][C1_Step]_vars

\* both failed statuses were queued, the consumer took the first and stopped
C1_Witness ==
    \E j \in JobIds :
        /\ Count(Tags(sent[j]), "failed") = 2
        /\ consumer[j].pc = "done"
        /\ Cardinality(TerminalEntries(job_status_log[j])) = 1
        /\ ConsumerNotifs(j) = << "failed" >>

(***************************************************************************)
(* C2.  Every entry of the progress registry holds a non-terminal status,  *)
(* and a job whose latest processed status is terminal has no entry.       *)
(***************************************************************************)
C2_RegistryNonTerminal ==
    \A j \in JobIds :
        /\ progress_tracker[j] # None => progress_tracker[j].tag \in NonTerminalTags
        /\ consumer[j].status.tag \in TerminalTags => progress_tracker[j] = None

(***************************************************************************)
(* C3.  The terminal update_status call, and with it the append of the     *)
(* terminal entry, comes before cleanup_device is invoked and before the   *)
(* registry entry is removed: both are preceded by the call, and no        *)
(* terminal entry is appended after either of them.                        *)
(***************************************************************************)
C3_State ==
    \A j \in JobIds :
        \A i \in 1 .. Len(milestones[j]) :
            /\ milestones[j][i] \in {"cleanup", "remove"} =>
                  \E k \in 1 .. (i - 1) : milestones[j][k] = "persist"
            /\ milestones[j][i] = "appended" =>
                  \A k \in 1 .. (i - 1) : milestones[j][k] \notin {"cleanup", "remove"}

C3_Step ==
    \A j \in JobIds :
        (cleanup[j].called \/ Count(milestones[j], "remove") > 0) =>
            TerminalEntries(job_status_log'[j]) = TerminalEntries(job_status_log[j])

\* C3: the terminal append precedes cleanup_device and the registry removal
C3_TerminalAppendBeforeCleanup == [] C3_State /\ [][C3_Step]_vars

\* a daemon-mounted device's job: entry appended, device cleaned up, entry removed
C3_Witness ==
    \E j \in JobIds :
        /\ milestones[j] = << "persist", "appended", "cleanup", "remove" >>
        /\ HasTerminalEntry(j)
        /\ cleanup[j].unmounted
        /\ progress_tracker[j] = None

(***************************************************************************)
(* C4.  The statuses sent on a job's channel match                         *)
(*   ready? in_progress* copy_complete? verifying* (complete | failed):    *)
(* one terminal value, sent last.                                          *)
(***************************************************************************)
Rank(tag) ==
    CASE tag = "ready" -> 0
      [] tag = "in_progress" -> 1
      [] tag = "copy_complete" -> 2
      [] tag = "verifying" -> 3
      [] tag \in TerminalTags -> 4

MayRepeat(tag) == tag \in {"in_progress", "verifying"}

C4_StreamOrder ==
    \A j \in JobIds :
        \A i, k \in 1 .. Len(sent[j]) :
            i < k =>
                /\ Rank(sent[j][i].tag) <= Rank(sent[j][k].tag)
                /\ Rank(sent[j][i].tag) = Rank(sent[j][k].tag) => MayRepeat(sent[j][i].tag)

(***************************************************************************)
(* C5.  The consumer receives the statuses sent, in send order, none       *)
(* dropped, duplicated or reordered, until it stops; at most 100 are       *)
(* queued; the appended log entries follow the order of the statuses.      *)
(***************************************************************************)
C5_FifoBounded ==
    \A j \in JobIds :
        /\ Len(chan[j]) <= ProgressChannelCapacity
        /\ IsPrefix(recvd[j], sent[j])
        /\ ~rx_dropped[j] => sent[j] = recvd[j] \o chan[j]
        /\ IsSubseq(AppendedStatuses(j), SelectSeq(Tags(recvd[j]), IsPersistedTag))

\* the channel is full, a sender waits, and the consumer has been receiving
C5_Witness ==
    \E j \in JobIds :
        /\ Len(chan[j]) = ProgressChannelCapacity
        /\ producer[j] = "running"
        /\ ipLeft[j] > 0
        /\ Len(recvd[j]) > 0

(***************************************************************************)
(* C6.  When the consumer has processed a terminal status and stopped, the *)
(* job's log has at least two entries, the last one terminal.              *)
(***************************************************************************)
C6_AtLeastTwoEntries ==
    \A j \in JobIds :
        consumer[j].pc = "done" =>
            /\ Len(job_status_log[j]) >= 2
            /\ HasTerminalEntry(j)

(***************************************************************************)
(* C7.  The status a read returns for a job is the status of the entry     *)
(* appended last.                                                          *)
(***************************************************************************)
C7_ReadIsNewest == readResult # NoRead => readResult.status = readResult.newest

(***************************************************************************)
(* C8.  A cleanup_device call unmounts (calls umount2) iff the uuid was in *)
(* the mount table when it was called, and after an unmount it performed   *)
(* the uuid is not in the table.                                           *)
(***************************************************************************)
Returned(j) == cleanup[j].called /\ cleanup[j].result # "none"

C8_UnmountIffInTable ==
    \A j \in JobIds :
        Returned(j) /\ consumer[j].pc = "remove" =>
            /\ cleanup[j].unmount_tried <=> cleanup[j].in_table
            /\ cleanup[j].unmounted => job_dev[j].uuid \notin mounted_by_us

(***************************************************************************)
(* C9.  For a uuid that is not in the mount table cleanup_device returns   *)
(* success, unmounts nothing and leaves the table alone, whether or not    *)
(* the filesystem flush succeeded.                                         *)
(***************************************************************************)
C9_AbsentUuidIsSuccess ==
    \A j \in JobIds :
        Returned(j) /\ ~cleanup[j].in_table =>
            /\ cleanup[j].result = "ok"
            /\ ~cleanup[j].unmount_tried
            /\ ~cleanup[j].table_changed

(***************************************************************************)
(* C10.  A job on a daemon-mounted device that has reached its terminal    *)
(* status, complete or failed, has had cleanup_device invoked.             *)
(***************************************************************************)
C10_TerminalCleansUp ==
    \A j \in JobIds :
        consumer[j].pc = "done" /\ job_dev[j].mount_point = "bksd" => cleanup[j].called

(***************************************************************************)
(* C12.  After the engine returned Ok the producer sends copy_complete;    *)
(* the verifier runs exactly when verify_transfers is on, simulation is    *)
(* off and the result carries file hashes; complete is sent iff the        *)
(* verifier did not run or succeeded; when it failed, failed is sent and   *)
(* complete never is.                                                      *)
(***************************************************************************)
HasTag(statuses, tag) == \E i \in 1 .. Len(statuses) : statuses[i].tag = tag

\* the statuses sent after copy_complete
AfterCopyComplete(statuses) ==
    LET i == CHOOSE k \in 1 .. Len(statuses) : statuses[k].tag = "copy_complete"
    IN  SubSeq(statuses, i + 1, Len(statuses))

C12_VerificationGate ==
    \A j \in JobIds :
        LET applicable == /\ config.verify_transfers
                          /\ ~config.simulation
                          /\ ResultHasHashes(config.transfer_engine)
        IN  /\ producer[j] = "after_copy" =>
                  /\ Tags(sent[j])[Len(sent[j])] = "copy_complete"
                  /\ verify[j] = "none"
            /\ verify[j] # "none" =>
                  /\ producer[j] = "done"
                  /\ HasTag(sent[j], "copy_complete")
                  /\ verify[j] = "skipped" <=> ~applicable
                  /\ Tags(AfterCopyComplete(sent[j])) =
                        IF verify[j] = "err" THEN << "failed" >> ELSE << "complete" >>

\* the verifier ran on a native-copy result and failed: failed, no complete
C12_Witness ==
    \E j \in JobIds :
        /\ verify[j] = "err"
        /\ Tags(sent[j])[Len(sent[j])] = "failed"
        /\ ~HasTag(sent[j], "complete")
        /\ consumer[j].pc = "done"

(***************************************************************************)
(* C11.  Under fair scheduling, every job created in the database          *)
(* eventually has a terminal status-log entry and no registry entry (its   *)
(* consumer having stopped).                                               *)
(***************************************************************************)
C11_EventuallyTerminal ==
    \A j \in JobIds :
        Created(j) ~> /\ consumer[j].pc = "done"
                      /\ HasTerminalEntry(j)
                      /\ progress_tracker[j] = None

(***************************************************************************)
(* C18.  A notification call that never returns delays nothing: once the   *)
(* consumer has received a terminal status, the terminal entry is          *)
(* appended, cleanup_device is called (complete) and the registry entry is *)
(* removed, whether or not any notification call returns.                  *)
(***************************************************************************)
C18_NotifyNeverBlocks ==
    \A j \in JobIds :
        (consumer[j].status.tag \in TerminalTags) ~>
            /\ HasTerminalEntry(j)
            /\ consumer[j].status.tag = "complete" => cleanup[j].called
            /\ progress_tracker[j] = None
            /\ consumer[j].pc = "done"

(***************************************************************************)
(* C13.  After a successful native copy the result carries exactly one     *)
(* file hash per regular file of the source, and the verifier run on the   *)
(* untouched destination succeeds with files_verified the number of        *)
(* regular files and bytes_verified the sum of their sizes.                *)
(***************************************************************************)
C13_RegularFiles == { p \in Paths : source_tree[p].kind = "file" }

RECURSIVE SetSumLen(_)
SetSumLen(S) ==
    IF S = {} THEN 0
    ELSE LET p == CHOOSE x \in S : TRUE IN source_tree[p].len + SetSumLen(S \ {p})

C14_Reason(i) ==
    LET p == file_hashes[i].relative_path
    IN  IF ~dest_tree[p].present THEN "missing in destination"
        ELSE IF Blake3(dest_tree[p].data, dest_tree[p].len) # file_hashes[i].hash
             THEN "hash mismatch"
        ELSE "ok"

C14_Bad == { i \in 1 .. Len(file_hashes) : C14_Reason(i) # "ok" }

\* the k-th recorded file that fails
C14_NthBad(k) == CHOOSE i \in C14_Bad : Cardinality({ x \in C14_Bad : x < i }) = k - 1

C14_VerifierCollectsAll ==
    native.pc = "verified" =>
        /\ verified.returned = "err" <=> C14_Bad # {}
        /\ verified.returned = "err" =>
              /\ verified.count = Cardinality(C14_Bad)
              /\ Len(verified.listed) =
                    (IF Cardinality(C14_Bad) > 10 THEN 10 ELSE Cardinality(C14_Bad))
              /\ \A k \in 1 .. Len(verified.listed) :
                    /\ verified.listed[k].relative_path =
                          file_hashes[C14_NthBad(k)].relative_path
                    /\ verified.listed[k].reason = C14_Reason(C14_NthBad(k))
        /\ verified.returned = "ok" =>
              /\ verified.files_verified = Len(file_hashes)
              /\ verified.bytes_verified =
                    SeqSum([i \in 1 .. Len(file_hashes) |-> file_hashes[i].size])
              /\ Len(file_hashes) = 0 =>
                    verified.files_verified = 0 /\ verified.bytes_verified = 0

\* eleven recorded files, all failing, for both reasons: 11 counted, 10 listed
C14_Witness ==
    /\ native.pc = "verified"
    /\ verified.returned = "err"
    /\ verified.count = 11
    /\ Len(verified.listed) = 10
    /\ verified.listed[1].reason = "missing in destination"
    /\ verified.listed[2].reason = "hash mismatch"

(***************************************************************************)
(* C16.  Every in_progress status emitted carries a percentage in 0..100,  *)
(* 100 when total_bytes is 0, and the percentages of one transfer never    *)
(* decrease, whatever the bytes copied are compared with the total         *)
(* measured at scan time.                                                  *)
(***************************************************************************)
C16_PercentageInRange ==
    /\ \A i \in 1 .. Len(emitted) :
          /\ emitted[i].percentage \in 0 .. 100
          /\ emitted[i].total_bytes = 0 => emitted[i].percentage = 100
    /\ \A i, k \in 1 .. Len(emitted) :
          i < k => emitted[i].percentage <= emitted[k].percentage

(***************************************************************************)
(* C15.  When the destination exists at the engine's check (native copy or *)
(* rsync), transfer() returns the 'already exists' error, the job creates  *)
(* or modifies nothing under the destination, no copy_complete is sent,    *)
(* and the job's status log ends as ready, failed.                         *)
(***************************************************************************)
Statuses(log) == [i \in 1 .. Len(log) |-> log[i].status]

C15_ExistingDestinationRefused ==
    \A j \in JobIds :
        job_dest[j].found = "exists" =>
            /\ transfer_error[j] = "already exists"
            /\ producer[j] \in {"engine_failed", "transfer_err", "done"}
            /\ j \notin destinations[job_dest[j].path].writers
            /\ ~HasTag(sent[j], "copy_complete")
            /\ ~HasTag(sent[j], "in_progress")
            /\ IsPrefix(Statuses(job_status_log[j]), << "Ready", "failed" >>)
            /\ consumer[j].pc = "done" =>
                  Statuses(job_status_log[j]) = << "Ready", "failed" >>

\* the destination was there: the engine and the producer both sent failed,
\* the log holds ready and one failed
C15_Witness ==
    \E j \in JobIds :
        /\ job_dest[j].found = "exists"
        /\ producer[j] = "done"
        /\ consumer[j].pc = "done"
        /\ Tags(sent[j]) = << "ready", "failed", "failed" >>
        /\ Statuses(job_status_log[j]) = << "Ready", "failed" >>
        /\ destinations[job_dest[j].path].writers = {}

(***************************************************************************)
(* C17.  Jobs of different devices run concurrently and apart: a job's     *)
(* registry entry is the status its own consumer received last, its log    *)
(* holds the statuses received on its own channel, a step changes the log  *)
(* or the registry entry of job j only when j's own consumer (or j's       *)
(* creation) takes it, and every job created reaches a terminal status.    *)
(***************************************************************************)
C17_State ==
    \A j \in JobIds :
        /\ progress_tracker[j] # None =>
              /\ Len(recvd[j]) > 0
              /\ progress_tracker[j] = recvd[j][Len(recvd[j])]
        /\ IsSubseq(AppendedStatuses(j), SelectSeq(Tags(recvd[j]), IsPersistedTag))
        /\ IsPrefix(recvd[j], sent[j])

C17_Step ==
    \A j \in JobIds :
        (job_status_log'[j] # job_status_log[j] \/ progress_tracker'[j] # progress_tracker[j])
            => consumer'[j] # consumer[j]

C17_ConcurrentJobs ==
    /\ [] C17_State
    /\ [][C17_Step]_vars
    /\ \A j \in JobIds : Created(j) ~> HasTerminalEntry(j)

\* two devices, two jobs, both copying with a registry entry each
C17_Witness ==
    /\ job_dev[1].uuid # job_dev[2].uuid
    /\ Created(1) /\ Created(2)
    /\ \A j \in JobIds :
          /\ progress_tracker[j] # None
          /\ progress_tracker[j].tag \in NonTerminalTags
          /\ consumer[j].status.tag \notin TerminalTags
          /\ ~HasTerminalEntry(j)

(***************************************************************************)
(* C19.  An attach whose mount fails is dropped by the adapter: every      *)
(* attach taken so far either failed to mount or stands for exactly one    *)
(* DeviceAdded event (queued or turned into a job), nothing exists under   *)
(* a job id that was not allocated, every uuid of the mount table belongs  *)
(* to a forwarded device, and while attaches remain and the queue has room *)
(* the adapter can take the next one.                                      *)
(***************************************************************************)
QueuedAdded == { i \in 1 .. Len(events) : events[i].kind = "DeviceAdded" }

MountsFailed == MaxFaults - faultsLeft

C19_MountFailureDropsEvent ==
    /\ (next_job - 1) + Cardinality(QueuedAdded) = (MaxJobs - attachLeft) - MountsFailed
    /\ \A j \in JobIds :
          j >= next_job => /\ job_dev[j] = NoDev
                           /\ job_status_log[j] = << >>
                           /\ progress_tracker[j] = None
    /\ \A u \in mounted_by_us :
          \/ \E i \in QueuedAdded : events[i].dev.uuid = u
          \/ \E j \in JobIds : job_dev[j].uuid = u
    /\ (attachLeft > 0 /\ Len(events) < EventChannelCapacity) => ENABLED Adapter

\* one attach failed to mount, the other became a job that is being copied
C19_Witness ==
    /\ MountsFailed = 1
    /\ attachLeft = 0
    /\ events = << >>
    /\ next_job = 2
    /\ Created(1)
    /\ progress_tracker[1] # None
    /\ job_status_log[2] = << >>

(***************************************************************************)
(* C20.  A DeviceAdded event whose job cannot be persisted ends with no    *)
(* job: every event handled so far either failed at create or became one   *)
(* job; under the id of a failed create there is no log, no started        *)
(* notification, no channel traffic, no producer, no consumer and no       *)
(* registry entry; the failing step leaves the registry as it was; and     *)
(* the event loop can take the next queued event.                          *)
(***************************************************************************)
CreatesFailed == MaxFaults - faultsLeft

NoJob(j) ==
    /\ job_dev[j] = NoDev
    /\ job_dest[j] = NoDest
    /\ job_status_log[j] = << >>
    /\ started_task[j] = "none"
    /\ notified[j] = << >>
    /\ chan[j] = << >> /\ sent[j] = << >> /\ recvd[j] = << >>
    /\ producer[j] = "idle"
    /\ consumer[j].pc = "idle"
    /\ progress_tracker[j] = None

C20_State ==
    /\ Cardinality({ j \in JobIds : Created(j) }) = (next_job - 1) - CreatesFailed
    /\ \A j \in JobIds : ~Created(j) => NoJob(j)
    /\ Len(events) > 0 => ENABLED EventLoop

C20_Step ==
    faultsLeft' < faultsLeft =>
        /\ progress_tracker' = progress_tracker
        /\ job_status_log' = job_status_log
        /\ events' = Tail(events)

C20_CreateFailureDropsEvent == [] C20_State /\ [][C20_Step]_vars

\* the first event failed at create, the second became job 2, whose started
\* notification went out and whose copy is in progress
C20_Witness ==
    /\ CreatesFailed = 1
    /\ next_job = 3
    /\ NoJob(1)
    /\ Created(2)
    /\ notified[2] = << "started" >>
    /\ progress_tracker[2] # None

(***************************************************************************)
(* C21.  create is all-or-nothing: a call that fails at any statement or   *)
(* at the commit leaves the three tables as they were, a call that         *)
(* succeeds leaves the target row, the job row and the job's single        *)
(* initial entry, and in every state a job has a row exactly when its log  *)
(* starts with the entry create writes.                                    *)
(***************************************************************************)
C21_State ==
    \A j \in JobIds :
        /\ db_jobs[j] # NoRow <=> Len(job_status_log[j]) > 0
        /\ db_jobs[j] # NoRow => /\ db_jobs[j] \in db_targets
                                 /\ job_status_log[j][1].status = create(0)[1].status

C21_Step ==
    create_result' # create_result =>
        LET j == create_result'.job IN
        IF create_result'.fail_at = 0
        THEN /\ db_jobs'[j] # NoRow
             /\ db_jobs'[j] \in db_targets'
             /\ Len(job_status_log'[j]) = 1
        ELSE /\ db_targets' = db_targets
             /\ db_jobs' = db_jobs
             /\ job_status_log' = job_status_log

C21_CreateAllOrNothing == [] C21_State /\ [][C21_Step]_vars

\* a create that failed at its third statement, after an earlier one succeeded
C21_Witness ==
    /\ create_result.fail_at = 3
    /\ db_jobs[create_result.job] = NoRow
    /\ \E j \in JobIds : db_jobs[j] # NoRow

(***************************************************************************)
(* C22.  No job outcome stops the daemon: start has returned only when     *)
(* the event sender is dropped and the queue is drained; while it runs,    *)
(* a queued event can be handled whatever the jobs are doing; a            *)
(* DeviceAdded handled without a failing create starts a new job with its  *)
(* own producer and consumer and touches no other job's tasks; and no      *)
(* step other than the end of the event channel ends the loop.             *)
(***************************************************************************)
C22_State ==
    /\ orch = "returned" => ~tx_open /\ events = << >>
    /\ (orch = "running" /\ Len(events) > 0) => ENABLED EventLoop

C22_Step ==
    /\ orch' # orch => /\ ~tx_open
                       /\ events = << >>
                       /\ \A j \in JobIds : consumer'[j] = consumer[j]
    /\ (/\ Len(events) > 0
        /\ Head(events).kind = "DeviceAdded"
        /\ events' = Tail(events)
        /\ faultsLeft' = faultsLeft)
          => /\ producer'[next_job] = "send_ready"
             /\ consumer'[next_job].pc = "recv"
             /\ Len(job_status_log'[next_job]) = 1
             /\ \A k \in JobIds \ {next_job} :
                   producer'[k] = producer[k] /\ consumer'[k] = consumer[k]

C22_DaemonSurvives == [] C22_State /\ [][C22_Step]_vars

\* the first event failed at create or its job ended as failed, and the
\* second became a job that is being copied while the loop still runs
C22_Witness ==
    /\ orch = "running"
    /\ next_job = 3
    /\ \/ ~Created(1)
       \/ consumer[1].pc = "done" /\ "failed" \in { job_status_log[1][i].status :
                                                      i \in 1 .. Len(job_status_log[1]) }
    /\ Created(2)
    /\ progress_tracker[2] # None
    /\ progress_tracker[2].tag = "in_progress"

(***************************************************************************)
(* C23.  The progress registry is a map from job to its latest status:     *)
(* after any sequence of update and remove calls, get(j) is the status of  *)
(* the last update(j, s) with no remove(j) after it, or nothing;           *)
(* active_count is the number of jobs with such an update; get_all is      *)
(* exactly those pairs as they were when it was called, whatever is        *)
(* written later; and a write on job j leaves the other entries alone.     *)
(***************************************************************************)
WritesOn(ops, n, j) == { i \in 1 .. n : ops[i].job = j }

LastWriteOn(ops, n, j) == CHOOSE i \in WritesOn(ops, n, j) : \A k \in WritesOn(ops, n, j) : k <= i

\* what the claim says job j's entry is after the first n calls
EntryAfter(ops, n, j) ==
    IF WritesOn(ops, n, j) = {} THEN None
    ELSE IF ops[LastWriteOn(ops, n, j)].op = "update"
         THEN ops[LastWriteOn(ops, n, j)].status
         ELSE None

ActiveAfter(ops, n) == { j \in JobIds : EntryAfter(ops, n, j) # None }

C23_State ==
    /\ \A j \in JobIds :
          TrackerGet(progress_tracker, j) = EntryAfter(tracker_ops, Len(tracker_ops), j)
    /\ tracker_read.kind = "get" =>
          tracker_read.value = EntryAfter(tracker_ops, tracker_read.at, tracker_read.job)
    /\ tracker_read.kind = "active_count" =>
          tracker_read.count = Cardinality(ActiveAfter(tracker_ops, tracker_read.at))
    /\ tracker_snapshot.taken =>
          /\ DOMAIN tracker_snapshot.map = ActiveAfter(tracker_ops, tracker_snapshot.at)
          /\ \A j \in DOMAIN tracker_snapshot.map :
                tracker_snapshot.map[j] = EntryAfter(tracker_ops, tracker_snapshot.at, j)

C23_Step ==
    tracker_ops' # tracker_ops =>
        \A k \in JobIds \ {tracker_ops'[Len(tracker_ops')].job} :
            progress_tracker'[k] = progress_tracker[k]

C23_RegistryIsMap == [] C23_State /\ [][C23_Step]_vars

\* a snapshot of two jobs taken before one of them was removed, and a count
\* read after the removal
C23_Witness ==
    /\ Len(tracker_ops) = 3
    /\ tracker_ops[3].op = "remove"
    /\ tracker_snapshot.taken
    /\ tracker_snapshot.at = 2
    /\ DOMAIN tracker_snapshot.map = JobIds
    /\ tracker_read.kind = "active_count"
    /\ tracker_read.at = 3
    /\ tracker_read.count = 1

(***************************************************************************)
(* C29.  Once the native copy loop has ended without an error, any two     *)
(* consecutive in_progress statuses it emitted, the final one left aside,  *)
(* are at least PROGRESS_UPDATE_INTERVAL bytes apart, and if any was       *)
(* emitted the last one has bytes_copied equal to total_bytes.             *)
(***************************************************************************)
C29_ProgressThrottled ==
    native.pc \in {"returned", "verified"} =>
        /\ \A i \in 1 .. (Len(emitted) - 2) :
              emitted[i + 1].bytes_copied - emitted[i].bytes_copied >= PROGRESS_UPDATE_INTERVAL
        /\ Len(emitted) > 0 =>
              emitted[Len(emitted)].bytes_copied = scan_result.total_bytes

(***************************************************************************)
(* C24.  Every I/O error met by a copy is classified as device-removed     *)
(* exactly when its kind is not-found, broken-pipe, connection-reset,      *)
(* connection-aborted or not-connected, or its OS error number is EIO,     *)
(* ENODEV, ENXIO, ENOMEDIUM or EMEDIUMTYPE; permission-denied never is.    *)
(***************************************************************************)
C24_RemovedKinds ==
    {"NotFound", "BrokenPipe", "ConnectionReset", "ConnectionAborted", "NotConnected"}

C24_RemovedErrnos == {EIO, ENODEV, ENXIO, ENOMEDIUM, EMEDIUMTYPE}

C24_Failed == { i \in 1 .. Len(native.attempts) : native.attempts[i].error # NoError }

C24_DeviceRemovedClassification ==
    \A i \in C24_Failed :
        LET a == native.attempts[i] IN
        /\ a.is_device_removed <=> \/ a.error.kind \in C24_RemovedKinds
                                    \/ a.error.errno \in C24_RemovedErrnos
        /\ a.error.kind = "PermissionDenied" => ~a.is_device_removed

\* a permission error that was not taken for a removal, then an EIO that was
C24_Witness ==
    /\ Len(native.attempts) = 2
    /\ native.attempts[1].error = OsError(EACCES)
    /\ ~native.attempts[1].is_device_removed
    /\ native.attempts[2].error = OsError(EIO)
    /\ native.attempts[2].is_device_removed

(***************************************************************************)
(* C30.  In the native copy loop the files are attempted in scan order; a  *)
(* copy failing with a device-removed error is the last attempt and the    *)
(* transfer returns that error at once; a copy failing with another error  *)
(* is recorded and the next file is attempted; after the loop the          *)
(* transfer returns an error exactly when an error was recorded, and the   *)
(* message counts all recorded errors and lists the first 10 at most.      *)
(***************************************************************************)
C30_IsRecorded(a) == a.error # NoError /\ ~a.is_device_removed

C30_Recorded ==
    LET failed == SelectSeq(native.attempts, C30_IsRecorded)
    IN  [i \in 1 .. Len(failed) |-> CopyError(failed[i].file, failed[i].error)]

C30_Min(a, b) == IF a < b THEN a ELSE b

C30_CopyLoopErrors ==
    LET A == native.attempts
        aborted == \E i \in 1 .. Len(A) : A[i].is_device_removed
    IN  /\ Len(A) <= Len(scan_result.files)
        /\ \A i \in 1 .. Len(A) :
              /\ A[i].file = scan_result.files[i].path
              /\ A[i].is_device_removed =>
                    /\ i = Len(A)
                    /\ native.pc = "failed"
                    /\ native.result.returned = "device_removed"
                    /\ native.result.at_file = A[i].file
        /\ native.errors = C30_Recorded
        /\ native.pc = "copy" => native.i = Len(A) + 1
        /\ (native.pc \in {"returned", "failed"} /\ ~aborted) =>
              /\ Len(A) = Len(scan_result.files)
              /\ native.result.returned = "errors" <=> Len(C30_Recorded) >= 1
              /\ native.result.returned = "ok" <=> Len(C30_Recorded) = 0
              /\ native.pc = "failed" <=> Len(C30_Recorded) >= 1
        /\ native.result.returned = "errors" =>
              /\ native.result.count = Len(C30_Recorded)
              /\ native.result.listed =
                    SubSeq(C30_Recorded, 1, C30_Min(Len(C30_Recorded), CopyErrorsShown))
              /\ Len(native.result.listed) <= CopyErrorsShown
              /\ native.result.more = Len(C30_Recorded) - Len(native.result.listed)

\* every file of the transfer failed with a recorded error, one more than
\* the message lists
C30_Witness ==
    /\ native.result.returned = "errors"
    /\ Len(native.attempts) = MaxScanned
    /\ native.result.count = CopyErrorsShown + 1
    /\ Len(native.result.listed) = CopyErrorsShown
    /\ native.result.more = 1

(***************************************************************************)
(* C25.  Every add_device / remove_device call on the simulated adapter's  *)
(* controller gives exactly one event of its kind and uuid at the sink     *)
(* passed to start, in call order: the events received, those queued in    *)
(* the sink and those of the commands still queued are, in this order,     *)
(* the events of the calls made; and every call's event is eventually      *)
(* received.                                                               *)
(***************************************************************************)
C25_EventOf(cmd) ==
    IF cmd.kind = "InjectAdd"
    THEN [kind |-> "DeviceAdded", uuid |-> cmd.uuid]
    ELSE [kind |-> "DeviceRemoved", uuid |-> cmd.uuid]

C25_Seen(ev) == [kind |-> ev.kind, uuid |-> ev.dev.uuid]

C25_Expected(cmds) == [i \in 1 .. Len(cmds) |-> C25_EventOf(cmds[i])]

C25_Observed(evs) == [i \in 1 .. Len(evs) |-> C25_Seen(evs[i])]

C25_State ==
    C25_Observed(sim_received) \o C25_Observed(events) \o C25_Expected(sim_cmds)
        = C25_Expected(sim_calls)

C25_ControllerEventsDelivered ==
    /\ [] C25_State
    /\ \A n \in 1 .. MaxCalls : (Len(sim_calls) >= n) ~> (Len(sim_received) >= n)

\* two adds and the removal of the first device, called before start, all
\* received
C25_Witness ==
    /\ Len(sim_calls) = 3
    /\ sim_calls[1].kind = "InjectAdd"
    /\ sim_calls[2].kind = "InjectAdd"
    /\ sim_calls[2].uuid # sim_calls[1].uuid
    /\ sim_calls[3] = InjectRemove(sim_calls[1].uuid)
    /\ Len(sim_received) = 3


(***************************************************************************)
(* C26.  A notifier call that returns an error never changes a job's       *)
(* outcome.  The step in which a notification fails leaves the status      *)
(* logs, the registry, the cleanup records, the event queue and the event  *)
(* loop as they are and moves the task that sent it exactly as the         *)
(* successful call does; and with notifications failing, a job whose       *)
(* consumer has ended has the log of the statuses it received with one     *)
(* terminal entry, had cleanup_device called exactly when it completed,    *)
(* has no registry entry, and the event loop is still running.             *)
(***************************************************************************)
C26_State ==
    /\ orch = "running"
    /\ \A j \in JobIds :
          consumer[j].pc = "done" =>
              /\ AppendedStatuses(j) = SelectSeq(Tags(recvd[j]), IsPersistedTag)
              /\ Cardinality(TerminalEntries(job_status_log[j])) = 1
              /\ job_status_log[j][Len(job_status_log[j])].status = Tag(j)
              /\ cleanup[j].called <=> Tag(j) = "complete"
              /\ progress_tracker[j] = None
              /\ Count(ConsumerNotifs(j), IF Tag(j) = "complete" THEN "completed"
                                           ELSE "failed") = 1

C26_Step ==
    faultsLeft' < faultsLeft =>
        /\ UNCHANGED << job_status_log, progress_tracker, cleanup, events, orch,
                        producer, chan, mounted_by_us >>
        /\ \E j \in JobIds :
              \/ /\ started_task[j] = "pending"
                 /\ started_task' = [started_task EXCEPT ![j] = "done"]
                 /\ consumer' = consumer
              \/ /\ consumer[j].pc = "notify"
                 /\ consumer' = [consumer EXCEPT ![j].pc = AfterNotify(Tag(j))]
                 /\ started_task' = started_task

C26_NotifierErrorDropped == [] C26_State /\ [][C26_Step]_vars

\* both notifications of a completed job returned an error; the job is
\* logged complete, its device was cleaned up and its registry entry is gone
C26_Witness ==
    /\ faultsLeft = 0
    /\ consumer[1].pc = "done"
    /\ Tag(1) = "complete"
    /\ notified[1] = << "started", "completed" >>
    /\ cleanup[1].called
    /\ progress_tracker[1] = None
    /\ Statuses(job_status_log[1]) = << "Ready", "copy_complete", "complete" >>


(***************************************************************************)
(* C27.  Every status-log entry, written by create or by the consumer's    *)
(* update_status, carries a tag of {ready, in_progress, copy_complete,     *)
(* verifying, complete, failed} spelled exactly so, and a list query       *)
(* filtered by the tag of a job's newest entry returns that job: every job *)
(* with a log is returned by the list query of one of the six tags.        *)
(***************************************************************************)
C27_Tags == {"ready", "in_progress", "copy_complete", "verifying", "complete", "failed"}

C27_StatusTagsClosed ==
    \A j \in JobIds :
        /\ \A i \in 1 .. Len(job_status_log[j]) : job_status_log[j][i].status \in C27_Tags
        /\ Len(job_status_log[j]) > 0 =>
              \E tag \in C27_Tags : j \in list(job_status_log, tag)


(***************************************************************************)
(* C28.  The mount table gains an entry only in the step in which the      *)
(* daemon mounts the device successfully: the device was not mounted, is   *)
(* mounted by the daemon afterwards, and the DeviceAdded forwarded carries *)
(* that mount point.  An attach of a device found mounted forwards the     *)
(* mount point found and leaves the table as it is, a failed mount leaves  *)
(* table, system mounts and event queue as they are, and every DeviceAdded *)
(* forwarded by the OS adapter, queued or turned into a job, carries a     *)
(* mount point.                                                            *)
(***************************************************************************)
C28_AttachStep == attachLeft' < attachLeft

C28_Step ==
    /\ ~(mounted_by_us' \subseteq mounted_by_us) =>
          \E u \in Uuids :
              /\ C28_AttachStep
              /\ faultsLeft' = faultsLeft
              /\ sysMount[u] = "none"
              /\ sysMount' = [sysMount EXCEPT ![u] = "bksd"]
              /\ mounted_by_us' = mounted_by_us \cup {u}
              /\ events' = Append(events, DeviceAdded(BlockDevice(u, "bksd")))
    /\ (C28_AttachStep /\ faultsLeft' < faultsLeft) =>
          UNCHANGED << mounted_by_us, sysMount, events >>
    /\ (C28_AttachStep /\ faultsLeft' = faultsLeft) =>
          \E u \in Uuids :
              /\ events' = Append(events, DeviceAdded(BlockDevice(u, sysMount'[u])))
              /\ sysMount'[u] # "none"
              /\ \/ /\ sysMount[u] = "none"
                    /\ sysMount'[u] = "bksd"
                    /\ mounted_by_us' = mounted_by_us \cup {u}
                 \/ /\ sysMount'[u] \in {sysMount[u], "ext"}
                    /\ mounted_by_us' = mounted_by_us

C28_State ==
    /\ \A i \in QueuedAdded : events[i].dev.mount_point \in {"ext", "bksd"}
    /\ \A j \in JobIds : job_dev[j] # NoDev => job_dev[j].mount_point \in {"ext", "bksd"}

C28_MountTableOnlyOwnMounts == [] C28_State /\ [][C28_Step]_vars

\* one device was mounted by the daemon and is in the table, the other was
\* found mounted and is not; both became jobs with their mount points
C28_Witness ==
    /\ mounted_by_us = {"u1"}
    /\ sysMount["u1"] = "bksd"
    /\ sysMount["u2"] = "ext"
    /\ \E j, k \in JobIds :
          /\ job_dev[j] = BlockDevice("u1", "bksd")
          /\ job_dev[k] = BlockDevice("u2", "ext")


(***************************************************************************)
(* C31.  A job's status log is at any time a prefix of: the entry written  *)
(* by create, then at most one copy_complete entry, then at most one       *)
(* terminal entry, complete carrying total_bytes and duration_secs, failed *)
(* carrying the error text.  The log changes only by create writing the    *)
(* first entry or by the consumer appending the persisted status it holds; *)
(* a ready, in_progress or verifying status received appends nothing.      *)
(***************************************************************************)
C31_Shapes ==
    { << >>, << "Ready" >>, << "Ready", "copy_complete" >> }
      \cup { << "Ready", t >> : t \in TerminalTags }
      \cup { << "Ready", "copy_complete", t >> : t \in TerminalTags }

C31_Payload(entry) ==
    CASE entry.status = "complete" -> entry.columns = {"total_bytes", "duration_secs"}
      [] entry.status = "failed" -> entry.columns = {"description"}
      [] entry.status = "copy_complete" -> entry.columns = {}
      [] OTHER -> TRUE

C31_State ==
    \A j \in JobIds :
        /\ Statuses(job_status_log[j]) \in C31_Shapes
        /\ \A i \in 1 .. Len(job_status_log[j]) : C31_Payload(job_status_log[j][i])
        /\ IsSubseq(AppendedStatuses(j), SelectSeq(Tags(recvd[j]), IsPersistedTag))

C31_Step ==
    \A j \in JobIds :
        /\ job_status_log'[j] # job_status_log[j] =>
              \/ job_status_log[j] = << >> /\ Len(job_status_log'[j]) = 1
              \/ /\ consumer[j].pc = "persist"
                 /\ Tag(j) \in {"copy_complete", "complete", "failed"}
                 /\ Len(job_status_log'[j]) = Len(job_status_log[j]) + 1
                 /\ IsPrefix(job_status_log[j], job_status_log'[j])
                 /\ job_status_log'[j][Len(job_status_log'[j])].status = Tag(j)
        /\ (/\ Len(recvd'[j]) > Len(recvd[j])
            /\ recvd'[j][Len(recvd'[j])].tag \in {"ready", "in_progress", "verifying"})
              => /\ job_status_log' = job_status_log
                 /\ consumer'[j].pc = "recv"

C31_StatusLogShape == [] C31_State /\ [][C31_Step]_vars

\* the consumer has received ready, in_progress, copy_complete and complete,
\* and the log holds three entries
C31_Witness ==
    \E j \in JobIds :
        /\ \A t \in {"ready", "in_progress", "copy_complete", "complete"} :
              HasTag(recvd[j], t)
        /\ Statuses(job_status_log[j]) = << "Ready", "copy_complete", "complete" >>
        /\ job_status_log[j][3].columns = {"total_bytes", "duration_secs"}


(***************************************************************************)
(* C32.  A DeviceAdded event handled creates at most one job, under an id  *)
(* of its own, and starts that job's producer and consumer and no other    *)
(* task; a job has a producer exactly when it has a consumer.  After       *)
(* create, a step changes the status log or the registry entry of job j    *)
(* only when it is a step of j's consumer at its persist, update or remove *)
(* position, and such a step changes no other job's log, registry entry or *)
(* consumer: a job's writes are the steps of one sequential task.          *)
(***************************************************************************)
C32_Others(j) == JobIds \ {j}

C32_State ==
    \A j \in JobIds :
        /\ (producer[j] # "idle") <=> Created(j)
        /\ Created(j) <=> j < next_job /\ job_status_log[j] # << >>
        /\ j >= next_job => NoJob(j)

C32_Handled ==
    /\ Len(events) > 0
    /\ Head(events).kind = "DeviceAdded"
    /\ events' = Tail(events)

C32_Step ==
    /\ C32_Handled =>
          \/ /\ faultsLeft' < faultsLeft
             /\ UNCHANGED << producer, consumer, job_status_log, progress_tracker >>
          \/ LET j == next_job IN
                /\ next_job' = j + 1
                /\ NoJob(j)
                /\ Len(job_status_log'[j]) = 1
                /\ producer'[j] = "send_ready"
                /\ consumer'[j].pc = "recv"
                /\ progress_tracker' = progress_tracker
                /\ \A k \in C32_Others(j) :
                      /\ producer'[k] = producer[k]
                      /\ consumer'[k] = consumer[k]
                      /\ job_status_log'[k] = job_status_log[k]
    /\ \A j \in JobIds :
          /\ (job_status_log[j] # << >> /\ job_status_log'[j] # job_status_log[j]) =>
                /\ consumer[j].pc = "persist"
                /\ consumer'[j] # consumer[j]
                /\ progress_tracker' = progress_tracker
                /\ \A k \in C32_Others(j) :
                      /\ consumer'[k] = consumer[k]
                      /\ job_status_log'[k] = job_status_log[k]
          /\ progress_tracker'[j] # progress_tracker[j] =>
                /\ consumer[j].pc \in {"recv", "remove"}
                /\ consumer'[j] # consumer[j]
                /\ job_status_log' = job_status_log
                /\ \A k \in C32_Others(j) :
                      /\ consumer'[k] = consumer[k]
                      /\ progress_tracker'[k] = progress_tracker[k]

C32_WritesSerialised == [] C32_State /\ [][C32_Step]_vars

\* two jobs, both consumers about to write: one its copy_complete entry, the
\* other its registry removal
C32_Witness ==
    /\ Created(1) /\ Created(2)
    /\ consumer[1].pc = "persist" /\ Tag(1) = "copy_complete"
    /\ consumer[2].pc = "remove"
    /\ Len(job_status_log[2]) = 3
    /\ progress_tracker[1] # None /\ progress_tracker[2] # None


(***************************************************************************)
(* C33.  With threads calling should_log on one LogThrottle concurrently,  *)
(* any two calls that returned true with no reset between them observed    *)
(* clock values at least the interval apart; a call begun after creation   *)
(* or after the latest reset, returning while no call has returned true    *)
(* since, returns true; and a call whose clock value is less than the      *)
(* interval away from that of the last call that returned true since the   *)
(* latest reset returns false.                                             *)
(***************************************************************************)
C33_Distance(a, b) == IF a >= b THEN a - b ELSE b - a

C33_State ==
    \A i, k \in 1 .. Len(th_granted) :
        (i < k /\ th_granted[i].resets = th_granted[k].resets) =>
            C33_Distance(th_granted[i].now_ms, th_granted[k].now_ms) >= ThrottleInterval

C33_SinceReset == { i \in 1 .. Len(th_granted) : th_granted[i].resets = th_resets }

C33_Returns(t) == th_calls'[t].calls > th_calls[t].calls

C33_Step ==
    \A t \in Threads :
        C33_Returns(t) =>
            /\ (th_calls[t].begun = th_resets /\ C33_SinceReset = {}) =>
                  th_calls'[t].result = "true"
            /\ (/\ C33_SinceReset # {}
                /\ C33_Distance(th_calls[t].now_ms, th_granted[Len(th_granted)].now_ms)
                      < ThrottleInterval)
                  => th_calls'[t].result = "false"

C33_ThrottleOncePerInterval == [] C33_State /\ [][C33_Step]_vars

\* four calls by two threads: two returned true an interval apart, one
\* returned false, and after a reset one returned true at once
C33_Witness ==
    /\ Len(th_granted) = 3
    /\ th_granted[1].resets = 0 /\ th_granted[2].resets = 0 /\ th_granted[3].resets = 1
    /\ th_granted[1].thread # th_granted[2].thread
    /\ th_granted[3].now_ms - th_granted[2].now_ms < ThrottleInterval
    /\ \A t \in Threads : th_calls[t].calls = MaxThrottleCalls


(***************************************************************************)
(* C34.  After stop the udev monitor thread ends on its own, within one    *)
(* poll timeout: once the token is cancelled the thread, until it is done, *)
(* always has a step of its own to take, whatever the processor task and   *)
(* the orchestrator do, and it ends.  Under fair scheduling the processor  *)
(* task ends too and drops the orchestrator's event sender, with no        *)
(* further hot-plug event needed.                                          *)
(***************************************************************************)
C34_ThreadNotWaiting == (cancelled /\ udev_pc # "done") => ENABLED UdevThread

C34_StopTerminates ==
    /\ [] C34_ThreadNotWaiting
    /\ cancelled ~> (udev_pc = "done")
    /\ cancelled ~> (fwd_pc = "done" /\ ~tx_open)


(***************************************************************************)
(* C35.  While a job is running its transfer, reading from a mount point,  *)
(* no cleanup_device called for another job unmounts that mount point: a   *)
(* step in which the consumer of job k unmounts a device is never taken    *)
(* while the engine of another job is running on the same device.          *)
(***************************************************************************)
C35_Reading(j, u) == producer[j] = "running" /\ job_dev[j].uuid = u

C35_Unmounts(k, u) ==
    /\ consumer[k].pc = "cleanup_umount"
    /\ consumer'[k].pc # "cleanup_umount"
    /\ job_dev[k].uuid = u
    /\ sysMount[u] # "none"
    /\ sysMount'[u] = "none"

C35_NoUnmountUnderReader ==
    [][\A k \in JobIds : \A u \in Uuids :
          C35_Unmounts(k, u) => \A j \in JobIds \ {k} : ~C35_Reading(j, u)]_vars


(***************************************************************************)
(* C36.  No two jobs write into the same destination directory: of two     *)
(* producers whose jobs were given the same destination path at most one   *)
(* passes the destination-must-not-exist check and creates the directory,  *)
(* however their checks and creations interleave.                          *)
(***************************************************************************)
C36_OneWriterPerDestination ==
    /\ \A p \in DOMAIN destinations : Cardinality(destinations[p].writers) <= 1
    /\ \A j, k \in JobIds :
          (j # k /\ job_dest[j].path # "" /\ job_dest[j].path = job_dest[k].path) =>
              ~(job_dest[j].found = "absent" /\ job_dest[k].found = "absent")


(***************************************************************************)
(* C37.  Every device mounted by the daemon has its uuid in the mount      *)
(* table until it is cleaned up or reported removed, however the steps of  *)
(* cleanup_device (membership check, unmount, table removal) interleave    *)
(* with the adapter's processing of a new attach of the same uuid: with no *)
(* Remove event, a device that is mounted by the daemon is in the table.   *)
(***************************************************************************)
C37_MountedIsTracked ==
    removeLeft = MaxRemove =>
        \A u \in Uuids : sysMount[u] = "bksd" => u \in mounted_by_us


(***************************************************************************)
(* C38.  Processing a Remove event for uuid u deletes u from the mount     *)
(* table, unmounts nothing and forwards DeviceRemoved(u); the orchestrator *)
(* handling DeviceRemoved changes no job, log, registry or mount state; a  *)
(* cleanup_device called for u after the Remove, and before the daemon     *)
(* mounts u again, finds u absent, performs no unmount and leaves the      *)
(* mount table unchanged.                                                  *)
(***************************************************************************)
C38_JobsUntouched ==
    UNCHANGED << job_status_log, progress_tracker, producer, consumer, chan,
                 rx_dropped, cleanup, notified >>

C38_RemoveStep ==
    removeLeft' < removeLeft =>
        \E u \in Uuids :
            /\ events' = Append(events, DeviceRemoved(u))
            /\ mounted_by_us' = mounted_by_us \ {u}
            /\ sysMount' = sysMount
            /\ C38_JobsUntouched

C38_HandleStep ==
    (Len(events) > 0 /\ Head(events).kind = "DeviceRemoved" /\ events' = Tail(events)) =>
        /\ C38_JobsUntouched
        /\ UNCHANGED << mounted_by_us, sysMount >>

\* the call of cleanup_device by job j, made while its device is in one of `marks`
C38_CallAfterRemove(j, marks) ==
    /\ ~cleanup[j].called
    /\ cleanup'[j].called
    /\ unplugged[job_dev[j].uuid] \in marks

C38_NoOp(j) ==
    /\ ~cleanup'[j].in_table
    /\ consumer'[j].pc \notin {"cleanup_umount", "cleanup_untrack"}
    /\ UNCHANGED << mounted_by_us, sysMount >>

C38_State ==
    /\ \A u \in Uuids : unplugged[u] = "removed" => u \notin mounted_by_us
    /\ \A j \in JobIds :
        (cleanup[j].called /\ ~cleanup[j].in_table) =>
            ~cleanup[j].unmount_tried /\ ~cleanup[j].table_changed

C38_Step ==
    /\ C38_RemoveStep
    /\ C38_HandleStep
    /\ \A j \in JobIds : C38_CallAfterRemove(j, {"removed"}) => C38_NoOp(j)

C39_TerminalIn(q) == \E i \in 1 .. Len(q) : q[i].tag \in TerminalTags

C39_NotBlocked ==
    \A j \in JobIds :
        (/\ producer[j] \notin {"idle", "done"}
         /\ rx_dropped[j] \/ C39_TerminalIn(recvd[j]))
            => ENABLED Producer(j)

C39_State ==
    \A j \in JobIds :
        /\ producer[j] = "done" => C39_TerminalIn(sent[j])
        /\ consumer[j].pc = "done" => C39_TerminalIn(recvd[j])
        /\ rx_dropped[j] => consumer[j].pc = "done"
        /\ ~(producer[j] = "done" /\ chan[j] = << >> /\ consumer[j].pc = "recv")

C39_Step ==
    \A j \in JobIds :
        (rx_dropped[j] /\ (producer'[j] # producer[j] \/ ipLeft'[j] # ipLeft[j])) =>
            /\ chan'[j] = chan[j]
            /\ sent'[j] = sent[j]
            /\ UNCHANGED << consumer, job_status_log, progress_tracker >>

C39_Terminates ==
    \A j \in JobIds : (producer[j] # "idle") ~> (producer[j] = "done")

C39_ProducerNeverBlocks ==
    /\ [](C39_NotBlocked /\ C39_State)
    /\ [][C39_Step]_vars
    /\ C39_Terminates

\* the engine reported its error, the consumer processed that Failed and
\* dropped the receiver, and the producer task's own Failed was refused and
\* ignored: the task is done with one failed accepted by the channel
C39_Witness ==
    \E j \in JobIds :
        /\ rx_dropped[j]
        /\ producer[j] = "done"
        /\ transfer_error[j] # "none"
        /\ Cardinality({ i \in 1 .. Len(sent[j]) : sent[j][i].tag = "failed" }) = 1
        /\ C39_TerminalIn(recvd[j])


(***************************************************************************)
(* C40.  For every job with a notifier configured, the started             *)
(* notification is handed to the notification channel only after the job   *)
(* has been persisted, and it is delivered before the job's completed or   *)
(* failed notification.                                                    *)
(***************************************************************************)
C40_AfterPersisted ==
    \A j \in JobIds :
        (started_task[j] # "none" \/ \E i \in 1 .. Len(notified[j]) : notified[j][i] = "started")
            => Len(job_status_log[j]) > 0

C40_StartedBeforeTerminal ==
    \A j \in JobIds :
        \A i \in 1 .. Len(notified[j]) :
            notified[j][i] \in {"completed", "failed"} =>
                \E k \in 1 .. i - 1 : notified[j][k] = "started"

C40_StartedNotificationFirst == C40_AfterPersisted /\ C40_StartedBeforeTerminal

====
